---- MODULE Spec2Model ----
(***************************************************************************)
(* Review-mining text pipeline (competitorScrapping/review_mining):        *)
(* DataCleaner, Deduplicator and ReviewClassifier.                         *)
(*                                                                         *)
(* Texts are sequences of characters.  A character is a one-character      *)
(* string; a code point that has no printable ASCII form is written as a   *)
(* bracketed name ("<TAB>", "<NUL>", "<U+263A>", ...) and still counts as  *)
(* ONE character of the text.                                              *)
(*                                                                         *)
(* Numbers that are floats in the program are kept exact: a fraction is a  *)
(* pair <<numerator, denominator>> with a positive denominator, ratings    *)
(* are counted in tenths, quality scores in units of 1/QualityUnit.        *)
(***************************************************************************)
EXTENDS Integers, Sequences, FiniteSets, TLC

VARIABLES
    text,             \* SpecText: the raw text handed to clean_text
    passes,           \* SpecText: results of successive clean_text calls
    rating_in,        \* SpecRating: the raw rating handed to _normalize_rating
    rating_out,       \* SpecRating: <<>> before the call, <<result>> after
    reviews,          \* SpecClean: the input list of clean_reviews
    cleaned_reviews,  \* SpecClean: the list clean_reviews is building
    next_review,      \* SpecClean: position of the for loop in clean_reviews
    dedup_in,         \* SpecDedup: the list handed to deduplicate_reviews
    dedup_pc,         \* SpecDedup: the step deduplicate_reviews is at
    after_hash,       \* SpecDedup: reviews_after_hash
    unique_reviews,   \* SpecDedup: unique_reviews of _remove_similarity_duplicates
    sim_next,         \* SpecDedup: position of its outer for loop
    after_spam,       \* SpecDedup: reviews_after_spam
    final_reviews,    \* SpecDedup: final_reviews
    sim_review1,      \* SpecSim: first record handed to _calculate_similarity
    sim_review2,      \* SpecSim: second record handed to _calculate_similarity
    similarity,       \* SpecSim: <<>> before the call, <<result>> after
    class_text,       \* SpecClassify: the text handed to the classifier
    category_scores,  \* SpecClassify: <<>> or <<scores of class_text>>
    sentiments,       \* SpecClassify: results of successive _analyze_sentiment calls
    appended_word,    \* SpecClassify: <<>> or the word appended for the second call
    classify_in,      \* SpecClassifyReview: the record handed to classify_review
    classified_review, \* SpecClassifyReview: <<>> before the call, <<result>> after
    review_batch,     \* SpecBatch: the ReviewBatch object
    json_file,        \* SpecBatch: <<>> or <<the document written by save_to_json>>
    loaded_batch,      \* SpecBatch: <<>> or <<the result of load_from_json>>
    report_batches,   \* SpecReport: the list of batches handed to the report functions
    report_out,        \* SpecReport: the set of <<function name, result>> of the calls made
    pipe_in,          \* SpecPipeline: the arguments of run_full_pipeline and what the scraper returns
    pipe_pc,          \* SpecPipeline: the step run_full_pipeline is at
    review_batches,   \* SpecPipeline: the batches returned by scrape_app_reviews
    processed_batches, \* SpecPipeline: the batches returned by process_review_batches
    batch_next,       \* SpecPipeline: the index of the batch process_review_batches is at
    cleaned_dicts,    \* SpecPipeline: the dictionaries returned by clean_reviews
    deduplicated_dicts, \* SpecPipeline: the dictionaries returned by deduplicate_reviews
    classified_dicts, \* SpecPipeline: the dictionaries returned by classify_reviews
    pipeline_result,   \* SpecPipeline: <<>> or <<the dictionary returned by run_full_pipeline>>
    primary_in,       \* SpecPrimary: <<>> or <<scores>>, the mapping handed to _get_primary_category
    primary_out,       \* SpecPrimary: <<>> before the call, <<result>> after
    frame_heap,       \* the dictionaries alive, a reference is an index
    frame_lists,      \* the list passed to each stage and the list returned by the last one, as references
    frame_snap,       \* the items of every list passed to a stage, as they were at the call
    frame_pc,          \* the stage to call next
    quality_in,       \* SpecQuality: <<>> or <<the scraped record>>
    quality_out,       \* SpecQuality: <<>> before the call, <<[cleaned, score]>> or <<[dropped]>> after
    request_pc,       \* SpecRequest: the position of _make_request
    get_outcomes,     \* the outcome of each session.get the server would give, in order
    clock,            \* time.time() in seconds
    last_request_time, \* BaseScraper.last_request_time
    delay,            \* delay_between_requests of the platform
    rate_limit_calls, \* the number of calls of _respect_rate_limit
    attempt,          \* the loop variable of _make_request
    get_attempts,     \* the number of session.get calls made
    sleeps,           \* the seconds of every time.sleep call of the retry loop, in order
    request_result    \* <<>> or <<the value returned>>

textVars   == <<text, passes>>
ratingVars == <<rating_in, rating_out>>
cleanVars  == <<reviews, cleaned_reviews, next_review>>
dedupVars  == <<dedup_in, dedup_pc, after_hash, unique_reviews, sim_next,
                after_spam, final_reviews>>

simVars    == <<sim_review1, sim_review2, similarity>>
classVars  == <<class_text, category_scores, sentiments, appended_word>>

reviewVars == <<classify_in, classified_review>>

batchVars == <<review_batch, json_file, loaded_batch>>

reportVars == <<report_batches, report_out>>

pipeVars == <<pipe_in, pipe_pc, review_batches, processed_batches, batch_next,
              cleaned_dicts, deduplicated_dicts, classified_dicts, pipeline_result>>

primaryVars == <<primary_in, primary_out>>

frameVars == <<frame_heap, frame_lists, frame_snap, frame_pc>>

qualityVars == <<quality_in, quality_out>>

requestVars == <<request_pc, get_outcomes, clock, last_request_time, delay, rate_limit_calls, attempt, get_attempts, sleeps, request_result>>

vars == <<textVars, ratingVars, cleanVars, dedupVars, simVars, classVars,
         reviewVars,
         batchVars,
         reportVars,
         pipeVars,
         primaryVars,
         frameVars,
         qualityVars,
         requestVars>>

\* a text field whose value is None (never a character of a text)
NoneText == <<"<None>">>

(***************************************************************************)
(* Bounds of the model                                                     *)
(***************************************************************************)
MaxFrags == 3       \* a raw text is built from at most MaxFrags fragments
MaxBatch == 2       \* clean_reviews is given at most MaxBatch records
MaxDedupBatch == 3  \* deduplicate_reviews is given at most MaxDedupBatch records
MaxRatingTenths == 70  \* raw numeric ratings range over -7.0 .. 7.0 in steps of 0.1
MaxFiller == 20     \* a classifier text starts with at most MaxFiller words 'app'
MaxWords == 2       \* followed by at most MaxWords words of ClassifyWords

(***************************************************************************)
(* Characters and character classes (Python str / re semantics)            *)
(***************************************************************************)
Lower == {"a","b","c","d","e","f","g","h","i","j","k","l","m",
          "n","o","p","q","r","s","t","u","v","w","x","y","z"}

Upper == {"A","B","C","D","E","F","G","H","I","J","K","L","M",
          "N","O","P","Q","R","S","T","U","V","W","X","Y","Z"}

Digit == {"0","1","2","3","4","5","6","7","8","9"}

\* re \w : letters, digits and the underscore
WordChar == Lower \cup Upper \cup Digit \cup {"_"}

\* re \s and str.strip(): blank, tab, line feed, and U+001F which is both
\* white space and a control character
WhiteSpace == {" ", "<TAB>", "<LF>", "<U+001F>"}

\* unicodedata.category(c) == 'Cc'
ControlChar == {"<TAB>", "<LF>", "<U+001F>", "<NUL>"}

\* the characters of the class [$-_] (code points 0x24 .. 0x5F)
DollarToUnderscore ==
    {"$","%","&","'","(",")","*","+",",","-",".","/",":",";","<","=",">",
     "?","@","[","\\","]","^","_"} \cup Digit \cup Upper

\* one character of the URL body in the pattern of clean_text
UrlChar == Lower \cup Upper \cup Digit \cup DollarToUnderscore
             \cup {"!","*","\\","(",")",","}

\* the punctuation kept by the allow-set [^\w\s.,!?;:()\-\'\"@#]
KeptPunct == {".", ",", "!", "?", ";", ":", "(", ")", "-", "'", "\"", "@", "#"}

(***************************************************************************)
(* Sequence helpers                                                        *)
(***************************************************************************)
Drop(s, n) == SubSeq(s, n + 1, Len(s))

Take(s, n) == SubSeq(s, 1, n)

HasPrefix(s, p) == Len(s) >= Len(p) /\ Take(s, Len(p)) = p

RECURSIVE Concat(_)
Concat(ss) == IF ss = <<>> THEN <<>> ELSE Head(ss) \o Concat(Tail(ss))

\* length of the longest prefix of s whose characters all lie in the set cs
RECURSIVE RunLen(_, _)
RunLen(s, cs) ==
    IF s = <<>> \/ Head(s) \notin cs THEN 0 ELSE 1 + RunLen(Tail(s), cs)

\* length of the longest prefix of s with no character in the set cs
RECURSIVE RunLenNot(_, _)
RunLenNot(s, cs) ==
    IF s = <<>> \/ Head(s) \in cs THEN 0 ELSE 1 + RunLenNot(Tail(s), cs)

(***************************************************************************)
(* DataCleaner.clean_text, step by step                                    *)
(***************************************************************************)
\* html.unescape, for the named references amp, lt, gt and quot.  A
\* reference is decoded with or without its closing ';'; the decoded
\* character is not scanned again.
Entities == << [name |-> <<"a","m","p">>,     ch |-> "&"],
               [name |-> <<"l","t">>,         ch |-> "<"],
               [name |-> <<"g","t">>,         ch |-> ">"],
               [name |-> <<"q","u","o","t">>, ch |-> "\""] >>

RECURSIVE html_unescape(_)
html_unescape(s) ==
    IF s = <<>> THEN <<>>
    ELSE IF Head(s) = "&" /\ \E i \in DOMAIN Entities : HasPrefix(Tail(s), Entities[i].name)
         THEN LET i    == CHOOSE k \in DOMAIN Entities : HasPrefix(Tail(s), Entities[k].name)
                  rest == Drop(Tail(s), Len(Entities[i].name))
              IN  <<Entities[i].ch>> \o
                  html_unescape(IF rest # <<>> /\ Head(rest) = ";" THEN Tail(rest) ELSE rest)
         ELSE <<Head(s)>> \o html_unescape(Tail(s))

\* unicodedata.normalize('NFKC', .) on the characters of the model: the
\* fullwidth exclamation mark, the horizontal ellipsis and the no-break
\* space have compatibility decompositions, every other character is kept.
NFKC(c) ==
    CASE c = "<U+FF01>" -> <<"!">>
      [] c = "<U+2026>" -> <<".", ".", ".">>
      [] c = "<NBSP>"   -> <<" ">>
      [] OTHER          -> <<c>>

RECURSIVE normalize_nfkc(_)
normalize_nfkc(s) ==
    IF s = <<>> THEN <<>> ELSE NFKC(Head(s)) \o normalize_nfkc(Tail(s))

\* re.sub(r'\s+', ' ', text)
RECURSIVE collapse_whitespace(_)
collapse_whitespace(s) ==
    IF s = <<>> THEN <<>>
    ELSE IF Head(s) \in WhiteSpace
         THEN <<" ">> \o collapse_whitespace(Drop(s, RunLen(s, WhiteSpace)))
         ELSE <<Head(s)>> \o collapse_whitespace(Tail(s))

\* ''.join(char for char in text if unicodedata.category(char) != 'Cc')
remove_control(s) == SelectSeq(s, LAMBDA c : c \notin ControlChar)

\* length of the URL that starts at the head of s, 0 if none does:
\* http[s]?:// followed by at least one URL character, greedy
UrlLenAt(s) ==
    LET http  == <<"h","t","t","p",":","/","/">>
        https == <<"h","t","t","p","s",":","/","/">>
        head  == IF HasPrefix(s, https) THEN Len(https)
                 ELSE IF HasPrefix(s, http) THEN Len(http) ELSE 0
        body  == RunLen(Drop(s, head), UrlChar)
    IN  IF head > 0 /\ body > 0 THEN head + body ELSE 0

\* re.sub(r'http[s]?://(?:...)+', '', text)
RECURSIVE remove_urls(_)
remove_urls(s) ==
    IF s = <<>> THEN <<>>
    ELSE IF UrlLenAt(s) > 0 THEN remove_urls(Drop(s, UrlLenAt(s)))
         ELSE <<Head(s)>> \o remove_urls(Tail(s))

\* does \S+@\S+\.\S+ match inside the run w of non-blank characters?
\* (an '@' after at least one character, then at least one character, a
\* '.', and at least one more character; a match covers the whole run)
IsEmailRun(w) ==
    \E j \in 2..Len(w) : /\ w[j] = "@"
                         /\ \E k \in (j + 2)..(Len(w) - 1) : w[k] = "."

\* re.sub(r'\S+@\S+\.\S+', '', text)
RECURSIVE remove_emails(_)
remove_emails(s) ==
    IF s = <<>> THEN <<>>
    ELSE IF Head(s) \in WhiteSpace THEN <<Head(s)>> \o remove_emails(Tail(s))
         ELSE LET n == RunLenNot(s, WhiteSpace)
              IN  (IF IsEmailRun(Take(s, n)) THEN <<>> ELSE Take(s, n))
                     \o remove_emails(Drop(s, n))

\* re.sub('[c]{least,}', repl, text): every maximal run of the character c
\* of length at least `least` becomes repl
RECURSIVE collapse_run(_, _, _, _)
collapse_run(s, c, least, repl) ==
    IF s = <<>> THEN <<>>
    ELSE IF Head(s) = c
         THEN LET n == RunLen(s, {c})
              IN  (IF n >= least THEN repl ELSE Take(s, n))
                     \o collapse_run(Drop(s, n), c, least, repl)
         ELSE <<Head(s)>> \o collapse_run(Tail(s), c, least, repl)

\* the three substitutions under "Remove excessive punctuation"
collapse_punctuation(s) ==
    collapse_run(collapse_run(collapse_run(s, "!", 2, <<"!">>), "?", 2, <<"?">>),
                 ".", 3, <<".", ".", ".">>)

\* re.sub(r'[^\w\s.,!?;:()\-\'\"@#]', '', text)
remove_special(s) ==
    SelectSeq(s, LAMBDA c : c \in WordChar \cup WhiteSpace \cup KeptPunct)

\* str.strip()
RECURSIVE rstrip(_)
rstrip(s) ==
    IF s # <<>> /\ s[Len(s)] \in WhiteSpace THEN rstrip(Take(s, Len(s) - 1)) ELSE s

strip(s) == rstrip(Drop(s, RunLen(s, WhiteSpace)))

\* DataCleaner.clean_text: a missing or empty text gives the empty text
clean_text(t) ==
    IF t = NoneText \/ t = <<>> THEN <<>>
    ELSE strip(remove_special(collapse_punctuation(remove_emails(remove_urls(
           remove_control(collapse_whitespace(
             normalize_nfkc(html_unescape(t)))))))))

(***************************************************************************)
(* SpecText: clean_text applied to a raw text, and again to its own result *)
(***************************************************************************)
\* the pieces raw texts are built from
Fragments ==
    { <<"a">>, <<" ">>, <<"!">>, <<".">>, <<"?">>,
      <<"<U+263A>">>,                      \* an emoji, outside the allow-set
      <<"<NUL>">>, <<"<TAB>">>,            \* control characters
      <<"<U+2026>">>,                      \* horizontal ellipsis
      <<"&","l","t",";">>,                 \* an HTML character reference
      <<"h","t","t","p",":","/","/","x">>, \* a URL
      <<"u","@","v",".","w">> }            \* an e-mail address

RECURSIVE TextsOf(_)
TextsOf(n) ==
    IF n = 0 THEN { <<>> }
    ELSE LET shorter == TextsOf(n - 1)
         IN  shorter \cup { t \o f : t \in shorter, f \in Fragments }

\* the URL scenario of DataCleaner's tests and of the specification
UrlScenarioText ==
    <<" "," ","T","h","i","s"," ","a","p","p"," ","i","s"," ","r","e","a","l","l","y"," ","g","o","o","d"," ","h","t","t","p","s",":","/","/","s","p","a","m",".","c","o","m"," ","a","n","d"," ","u","s","e","f","u","l"," "," ">>

UrlScenarioCleaned ==
    <<"T","h","i","s"," ","a","p","p"," ","i","s"," ","r","e","a","l","l","y"," ","g","o","o","d"," ","a","n","d"," ","u","s","e","f","u","l">>

TextInputs == TextsOf(MaxFrags) \cup { UrlScenarioText, NoneText }

IdleText     == /\ text = <<>>
                /\ passes = <<>>
IdleRating   == /\ rating_in = [none |-> TRUE]
                /\ rating_out = <<>>
IdleClean    == /\ reviews = <<>>
                /\ cleaned_reviews = <<>>
                /\ next_review = 1
IdleDedup    == /\ dedup_in = <<>>
                /\ dedup_pc = "idle"
                /\ after_hash = <<>>
                /\ unique_reviews = <<>>
                /\ sim_next = 1
                /\ after_spam = <<>>
                /\ final_reviews = <<>>
IdleSim      == /\ sim_review1 = [title |-> <<>>, content |-> <<>>]
                /\ sim_review2 = [title |-> <<>>, content |-> <<>>]
                /\ similarity = <<>>
IdleClassify == /\ class_text = <<>>
                /\ category_scores = <<>>
                /\ sentiments = <<>>
                /\ appended_word = <<>>

IdleClassifyReview == /\ classify_in = [title |-> <<>>, content |-> <<>>]
                      /\ classified_review = <<>>

IdleBatch == /\ review_batch = <<>>
             /\ json_file = <<>>
             /\ loaded_batch = <<>>

IdleReport == /\ report_batches = <<>>
              /\ report_out = {}

IdlePipeline == /\ pipe_in = <<>>
                /\ pipe_pc = "idle"
                /\ review_batches = <<>>
                /\ processed_batches = <<>>
                /\ batch_next = 1
                /\ cleaned_dicts = <<>>
                /\ deduplicated_dicts = <<>>
                /\ classified_dicts = <<>>
                /\ pipeline_result = <<>>

IdlePrimary == /\ primary_in = <<>>
               /\ primary_out = <<>>

IdleFrame == /\ frame_heap = <<>>
             /\ frame_lists = <<>>
             /\ frame_snap = <<>>
             /\ frame_pc = "idle"

IdleQuality == /\ quality_in = <<>>
               /\ quality_out = <<>>

IdleRequest == /\ request_pc = "idle"
               /\ get_outcomes = <<>>
               /\ clock = 0
               /\ last_request_time = 0
               /\ delay = 0
               /\ rate_limit_calls = 0
               /\ attempt = 0
               /\ get_attempts = 0
               /\ sleeps = <<>>
               /\ request_result = <<>>

InitText ==
    /\ text \in TextInputs
    /\ passes = <<>>
    /\ IdleRating
    /\ IdleClean
    /\ IdleDedup
    /\ IdleSim
    /\ IdleClassify
    /\ IdleClassifyReview
    /\ IdleBatch
    /\ IdleReport
    /\ IdlePipeline
    /\ IdlePrimary
    /\ IdleFrame
    /\ IdleQuality
    /\ IdleRequest

\* one call of clean_text: first on the raw text, then on the previous result
CleanTextCall ==
    /\ Len(passes) < 2
    /\ passes' = Append(passes, clean_text(IF passes = <<>> THEN text
                                           ELSE passes[Len(passes)]))
    /\ UNCHANGED <<text, ratingVars, cleanVars, dedupVars, simVars, classVars, reviewVars, batchVars, reportVars, pipeVars, primaryVars, frameVars, qualityVars, requestVars>>

NextText == CleanTextCall

SpecText == InitText /\ [][NextText]_vars

\* C1: normalization is idempotent: cleaning the result of clean_text again
\* gives the same text.
C1_CleanTextIdempotent ==
    Len(passes) = 2 => passes[2] = passes[1]

\* C2: the URL scenario text cleans to "This app is really good and useful",
\* the words around the removed URL separated by exactly one blank.
C2_UrlScenarioCleaned ==
    (text = UrlScenarioText /\ Len(passes) >= 1) => passes[1] = UrlScenarioCleaned

(***************************************************************************)
(* Values of untyped fields (rating, helpful_count, reply_count)           *)
(*   [none |-> TRUE]    None                                               *)
(*   [tenths |-> n]     the int or float n/10                              *)
(*   [nan |-> TRUE]     float('nan')                                       *)
(*   [inf |-> s]        float('inf') (s = 1) or float('-inf') (s = -1)     *)
(*   [str |-> chars]    a string                                           *)
(* Results of a call                                                       *)
(*   [int |-> k]        the int k                                          *)
(*   [raises |-> e]     the call raised the exception e                    *)
(***************************************************************************)
PyNone == [none |-> TRUE]

IsNone(v)   == DOMAIN v = {"none"}
IsNumber(v) == DOMAIN v = {"tenths"}
IsNaN(v)    == DOMAIN v = {"nan"}
IsInf(v)    == DOMAIN v = {"inf"}
IsStr(v)    == DOMAIN v = {"str"}
IsInt(v)    == DOMAIN v = {"int"}
Raises(v)   == DOMAIN v = {"raises"}

DigitValue(c) ==
    CASE c = "0" -> 0 [] c = "1" -> 1 [] c = "2" -> 2 [] c = "3" -> 3 [] c = "4" -> 4
      [] c = "5" -> 5 [] c = "6" -> 6 [] c = "7" -> 7 [] c = "8" -> 8 [] c = "9" -> 9

\* value of a non-empty string of decimal digits
RECURSIVE DigitsValue(_)
DigitsValue(ds) ==
    IF ds = <<>> THEN 0
    ELSE 10 * DigitsValue(Take(ds, Len(ds) - 1)) + DigitValue(ds[Len(ds)])

\* float(x): a number is itself; a string is parsed ("inf", "nan", or
\* decimal digits with at most one digit after the point, optionally
\* signed); any other string raises ValueError
float(v) ==
    IF ~IsStr(v) THEN v
    ELSE LET s        == strip(v.str)
             negative == s # <<>> /\ Head(s) = "-"
             body     == IF negative THEN Tail(s) ELSE s
             whole    == RunLen(body, Digit)
             rest     == Drop(body, whole)
             sign     == IF negative THEN -1 ELSE 1
         IN  IF body = <<"i","n","f">> THEN [inf |-> sign]
             ELSE IF body = <<"n","a","n">> THEN [nan |-> TRUE]
             ELSE IF whole > 0 /\ rest = <<>>
                  THEN [tenths |-> sign * 10 * DigitsValue(Take(body, whole))]
             ELSE IF whole > 0 /\ Len(rest) = 2 /\ rest[1] = "." /\ rest[2] \in Digit
                  THEN [tenths |-> sign * (10 * DigitsValue(Take(body, whole))
                                            + DigitValue(rest[2]))]
             ELSE [raises |-> "ValueError"]

\* round(x) of a float given in tenths: to the nearest integer, a tie
\* going to the even neighbour
round(n) ==
    LET q == n \div 10
        r == n % 10
    IN  IF r < 5 THEN q
        ELSE IF r > 5 THEN q + 1
        ELSE IF q % 2 = 0 THEN q ELSE q + 1

Max(a, b) == IF a >= b THEN a ELSE b
Min(a, b) == IF a <= b THEN a ELSE b

\* DataCleaner._normalize_rating.  round() raises ValueError on nan, which
\* the except clause turns into None, and OverflowError on an infinity,
\* which the except clause (ValueError, TypeError) lets through.
_normalize_rating(rating) ==
    IF IsNone(rating) THEN PyNone
    ELSE LET rating_float == float(rating)
         IN  IF Raises(rating_float) \/ IsNaN(rating_float) THEN PyNone
             ELSE IF IsInf(rating_float) THEN [raises |-> "OverflowError"]
             ELSE [int |-> Max(1, Min(5, round(rating_float.tenths)))]

\* DataCleaner._normalize_count: int(float(count)) truncates toward zero;
\* int() raises ValueError on nan and OverflowError on an infinity
_normalize_count(count) ==
    IF IsNone(count) THEN [int |-> 0]
    ELSE LET f == float(count)
         IN  IF Raises(f) \/ IsNaN(f) THEN [int |-> 0]
             ELSE IF IsInf(f) THEN [raises |-> "OverflowError"]
             ELSE [int |-> Max(0, IF f.tenths >= 0 THEN f.tenths \div 10
                                   ELSE -((-f.tenths) \div 10))]

(***************************************************************************)
(* SpecRating: _normalize_rating applied to one raw rating                 *)
(***************************************************************************)
RatingStrings == { <<"i","n","v","a","l","i","d">>, <<"x">>, <<"4",".","6">>, <<"3">>, <<" ","2"," ">>, <<"-","1">>, <<"i","n","f">>, <<"n","a","n">>, <<>> }

RatingInputs ==
    { PyNone, [nan |-> TRUE], [inf |-> 1], [inf |-> -1] }
      \cup { [tenths |-> n] : n \in (-MaxRatingTenths)..MaxRatingTenths }
      \cup { [str |-> s] : s \in RatingStrings }

InitRating ==
    /\ rating_in \in RatingInputs
    /\ rating_out = <<>>
    /\ IdleText
    /\ IdleClean
    /\ IdleDedup
    /\ IdleSim
    /\ IdleClassify
    /\ IdleClassifyReview
    /\ IdleBatch
    /\ IdleReport
    /\ IdlePipeline
    /\ IdlePrimary
    /\ IdleFrame
    /\ IdleQuality
    /\ IdleRequest

NormalizeRatingCall ==
    /\ rating_out = <<>>
    /\ rating_out' = <<_normalize_rating(rating_in)>>
    /\ UNCHANGED <<textVars, rating_in, cleanVars, dedupVars, simVars, classVars, reviewVars, batchVars, reportVars, pipeVars, primaryVars, frameVars, qualityVars, requestVars>>

NextRating == NormalizeRatingCall

SpecRating == InitRating /\ [][NextRating]_vars

(***************************************************************************)
(* DataCleaner: validation of the cleaned content                          *)
(***************************************************************************)
min_length == 5       \* PROCESSING_CONFIG['min_review_length']
max_length == 5000    \* PROCESSING_CONFIG['max_review_length']

UpperSeq == <<"A","B","C","D","E","F","G","H","I","J","K","L","M",
              "N","O","P","Q","R","S","T","U","V","W","X","Y","Z">>

LowerSeq == <<"a","b","c","d","e","f","g","h","i","j","k","l","m",
              "n","o","p","q","r","s","t","u","v","w","x","y","z">>

\* str.lower()
lower(s) ==
    LET lowered == [i \in DOMAIN s |->
                       IF s[i] \in Upper
                       THEN LowerSeq[CHOOSE k \in DOMAIN UpperSeq : UpperSeq[k] = s[i]]
                       ELSE s[i]]
    IN  SubSeq(lowered, 1, Len(s))

\* re.search of a literal pattern p / the Python test `p in s`
Contains(s, p) ==
    \E i \in 0..(Len(s) - Len(p)) : SubSeq(s, i + 1, i + Len(p)) = p

\* (.)\1{n-1,} : n equal consecutive characters ('.' does not match a line feed)
HasRepeatedRun(s, n) ==
    \E i \in 1..(Len(s) - n + 1) :
        s[i] # "<LF>" /\ \A k \in 1..(n - 1) : s[i + k] = s[i]

\* [cs]{n,} : n consecutive characters of the class cs
HasClassRun(s, cs, n) ==
    \E i \in 1..(Len(s) - n + 1) : \A k \in 0..(n - 1) : s[i + k] \in cs

\* DataCleaner._is_spam: every pattern is searched in the LOWER-CASED text
_is_spam(t) ==
    LET text_lower == lower(t)
    IN  \/ HasRepeatedRun(text_lower, 11)
        \/ HasClassRun(text_lower, Upper, 20)
        \/ Contains(text_lower, <<"w","w","w",".">>)
        \/ Contains(text_lower, <<"b","i","t",".","l","y">>)
        \/ Contains(text_lower, <<"c","l","i","c","k"," ","h","e","r","e">>)
        \/ Contains(text_lower, <<"f","r","e","e"," ","m","o","n","e","y">>)
        \/ Contains(text_lower, <<"b","u","y"," ","n","o","w">>)
        \/ Contains(text_lower, <<"l","i","m","i","t","e","d"," ","t","i","m","e">>)

english_words ==
    { <<"t","h","e">>, <<"a","n","d">>, <<"o","r">>, <<"b","u","t">>, <<"i","n">>, <<"o","n">>, <<"a","t">>, <<"t","o">>,
      <<"f","o","r">>, <<"o","f">>, <<"w","i","t","h">>, <<"b","y">> }

\* DataCleaner._is_supported_language: at least two of the words occur as
\* SUBSTRINGS of the lower-cased text
_is_supported_language(t) ==
    Cardinality({ w \in english_words : Contains(lower(t), w) }) >= 2

\* str.isalnum() of one character
IsAlnum(c) == c \in Lower \cup Upper \cup Digit

\* DataCleaner._is_valid_review, on the cleaned content
_is_valid_review(content) ==
    /\ Len(content) >= min_length
    /\ Len(content) <= max_length
    /\ Len(SelectSeq(content, IsAlnum)) >= 5
    /\ ~_is_spam(content)
    /\ _is_supported_language(content)

(***************************************************************************)
(* Dates.  A raw review_date is                                            *)
(*   [none |-> TRUE]   None or the empty string                            *)
(*   [iso |-> d]       a string starting YYYY-MM-DDTHH:MM:SS, d days ago   *)
(*   [isolike |-> TRUE] a string with these nineteen characters that       *)
(*                     fromisoformat rejects, as 2024-13-45T10:00:00       *)
(*   [known |-> d]     a string in one of the six strptime formats         *)
(*   [other |-> TRUE]  anything else                                       *)
(***************************************************************************)
\* DataCleaner._normalize_date
_normalize_date(d) ==
    IF DOMAIN d = {"iso"} \/ DOMAIN d = {"isolike"} THEN d
    ELSE IF DOMAIN d = {"known"} THEN [iso |-> d.known]
    ELSE PyNone

(***************************************************************************)
(* DataCleaner.clean_review: <<>> stands for None, <<r>> for the record r  *)
(***************************************************************************)
clean_review(review) ==
    LET title    == clean_text(review.title)
        content  == clean_text(review.content)
        rating   == _normalize_rating(review.rating)
        helpful  == _normalize_count(review.helpful_count)
        reply    == _normalize_count(review.reply_count)
        \* the copy of the review with the cleaned fields and the metadata
        cleaned  == [title |-> title, content |-> content, rating |-> rating,
                     review_date |-> _normalize_date(review.review_date),
                     helpful_count |-> helpful, reply_count |-> reply,
                     cleaned_at |-> [iso |-> 0],
                     original_length |-> Len(review.content),
                     cleaned_length |-> Len(content)] @@ review
    IN  IF ~_is_valid_review(content) THEN <<>>
        \* an exception anywhere in the try block: logged, None returned
        ELSE IF Raises(rating) \/ Raises(helpful) \/ Raises(reply) THEN <<>>
        ELSE <<cleaned>>

(***************************************************************************)
(* SpecClean: clean_reviews over a batch of raw records                    *)
(***************************************************************************)
\* 'This is a reasonable length review content' (test_is_valid_review_length)
ReasonableText ==
    <<"T","h","i","s"," ","i","s"," ","a"," ","r","e","a","s","o","n","a","b","l","e"," ","l","e","n","g","t","h"," ","r","e","v","i","e","w"," ","c","o","n","t","e","n","t">>

RawReview(id, t, c, r, h) ==
    [review_id |-> id, title |-> t, content |-> c, rating |-> r,
     helpful_count |-> h, reply_count |-> PyNone, review_date |-> PyNone]

\* dirty_review of test_clean_review_complete
DirtyReview ==
    [review_id |-> "test_123", title |-> <<" "," ","G","r","e","a","t"," ","A","p","p","!"," "," ">>,
     content |-> UrlScenarioText, rating |-> [tenths |-> 47],
     helpful_count |-> [str |-> <<"1","0">>], reply_count |-> PyNone,
     review_date |-> [known |-> 1400]]

\* good_review of test_is_valid_review_length
GoodReview == RawReview("good", NoneText, ReasonableText, PyNone, PyNone)

CleanContents ==
    { <<"T","h","i","s"," ","a","p","p"," ","w","o","r","k","s"," ","w","e","l","l"," ","f","o","r"," ","m","y"," ","d","a","i","l","y"," ","t","a","s","k","s">>,
      <<"t","h","e"," ","a","p","p"," ","i","s"," ","g","o","o","d"," "," "," ","a","n","d"," ","u","s","e","f","u","l","!","!">>,
      <<"c","l","i","c","k"," ","h","e","r","e"," ","f","o","r"," ","t","h","e"," ","b","e","s","t"," ","a","p","p">>,
      <<"B","a","d">> }

CleanRatings == { PyNone, [tenths |-> 25], [tenths |-> 60], [inf |-> 1], [str |-> <<"x">>] }

CleanCounts == { [tenths |-> -30], [str |-> <<"7">>] }

\* a record whose content holds a run of 25 upper-case letters
CapsReview ==
    RawReview("caps", <<"T","i","t","l","e">>,
              <<"T","H","I","S","A","P","P","I","S","G","R","E","A","T","F","O","R","T","H","E","P","R","I","C","E"," ","a","n","d"," ","m","o","r","e">>,
              PyNone, [str |-> <<"7">>])

CleanRecords ==
    { DirtyReview, GoodReview, CapsReview }
      \cup { RawReview("r", <<"T","i","t","l","e">>, c, r, h) :
                c \in CleanContents, r \in CleanRatings, h \in CleanCounts }

RECURSIVE SeqsUpTo(_, _)
SeqsUpTo(S, n) ==
    IF n = 0 THEN { <<>> }
    ELSE LET shorter == SeqsUpTo(S, n - 1)
         IN  shorter \cup { Append(s, x) : s \in shorter, x \in S }

InitClean ==
    /\ reviews \in SeqsUpTo(CleanRecords, MaxBatch)
    /\ cleaned_reviews = <<>>
    /\ next_review = 1
    /\ IdleText
    /\ IdleRating
    /\ IdleDedup
    /\ IdleSim
    /\ IdleClassify
    /\ IdleClassifyReview
    /\ IdleBatch
    /\ IdleReport
    /\ IdlePipeline
    /\ IdlePrimary
    /\ IdleFrame
    /\ IdleQuality
    /\ IdleRequest

\* one iteration of the for loop of clean_reviews
CleanNextReview ==
    /\ next_review <= Len(reviews)
    /\ LET cleaned_review == clean_review(reviews[next_review])
       IN  cleaned_reviews' = IF cleaned_review # <<>>
                              THEN Append(cleaned_reviews, cleaned_review[1])
                              ELSE cleaned_reviews
    /\ next_review' = next_review + 1
    /\ UNCHANGED <<textVars, ratingVars, reviews, dedupVars, simVars, classVars, reviewVars, batchVars, reportVars, pipeVars, primaryVars, frameVars, qualityVars, requestVars>>

NextClean == CleanNextReview

SpecClean == InitClean /\ [][NextClean]_vars

\* C3: ordinary English review text passes the cleaning stage: the record
\* with content 'This is a reasonable length review content' is accepted,
\* and dirty_review comes out with title 'Great App!', rating 5,
\* helpful_count 10 and a cleaned_at timestamp.
C3_OrdinaryReviewAccepted ==
    \A i \in 1..(next_review - 1) :
        /\ reviews[i].content = ReasonableText =>
              \E j \in DOMAIN cleaned_reviews :
                  cleaned_reviews[j].review_id = reviews[i].review_id
        /\ reviews[i] = DirtyReview =>
              \E j \in DOMAIN cleaned_reviews :
                  /\ cleaned_reviews[j].review_id = "test_123"
                  /\ cleaned_reviews[j].title = <<"G","r","e","a","t"," ","A","p","p","!">>
                  /\ cleaned_reviews[j].rating = [int |-> 5]
                  /\ cleaned_reviews[j].helpful_count = [int |-> 10]
                  /\ cleaned_reviews[j].cleaned_at # PyNone

\* C18: clean_reviews returns exactly the records whose normalized content
\* passes all validator checks, in input order: after the loop has handled
\* the first records of the input, the output lists (by review_id and
\* cleaned content) those of them whose cleaned content _is_valid_review
\* accepts, in the order of the input, and no others.
C18_CleanReviewsExactFilter ==
    LET Passes(r) == _is_valid_review(clean_text(r.content))
        handled   == SubSeq(reviews, 1, next_review - 1)
        passing   == SelectSeq(handled, Passes)
    IN  /\ Len(cleaned_reviews) = Len(passing)
        /\ \A j \in DOMAIN cleaned_reviews :
              /\ cleaned_reviews[j].review_id = passing[j].review_id
              /\ cleaned_reviews[j].content = clean_text(passing[j].content)

\* C19: the cleaning-stage spam check rejects every record whose normalized
\* content contains a run of 20 or more upper-case letters, a run of 11 or
\* more repetitions of one character, 'www.', 'bit.ly', or (in any case) one
\* of the phrases 'click here', 'free money', 'buy now', 'limited time':
\* no handled input record with such a content is in the output.
C19_CleaningSpamRejected ==
    \A i \in 1..(next_review - 1) :
        LET content == clean_text(reviews[i].content)
        IN  (\/ HasClassRun(content, Upper, 20)
             \/ HasRepeatedRun(content, 11)
             \/ Contains(content, <<"w","w","w",".">>)
             \/ Contains(content, <<"b","i","t",".","l","y">>)
             \/ Contains(lower(content), <<"c","l","i","c","k"," ","h","e","r","e">>)
             \/ Contains(lower(content), <<"f","r","e","e"," ","m","o","n","e","y">>)
             \/ Contains(lower(content), <<"b","u","y"," ","n","o","w">>)
             \/ Contains(lower(content), <<"l","i","m","i","t","e","d"," ","t","i","m","e">>))
            => ~\E j \in DOMAIN cleaned_reviews :
                    /\ cleaned_reviews[j].review_id = reviews[i].review_id
                    /\ cleaned_reviews[j].content = content

\* the value the claim gives for a numeric rating: the nearest integer,
\* clamped to [1,5]
IsRoundedAndClamped(k, v) ==
    IF IsInf(v) THEN k = (IF v.inf > 0 THEN 5 ELSE 1)
    ELSE \E m \in ((v.tenths \div 10) - 1)..((v.tenths \div 10) + 1) :
            /\ 10 * m - v.tenths \in -5..5
            /\ k = Max(1, Min(5, m))

\* C10: _normalize_rating returns None for a missing or non-numeric rating
\* and otherwise the rating rounded to the nearest integer and clamped to
\* [1,5].
C10_RatingNormalized ==
    rating_out # <<>> =>
        LET v == float(rating_in)
        IN  IF IsNone(v) \/ Raises(v) \/ IsNaN(v)
            THEN rating_out[1] = PyNone
            ELSE /\ IsInt(rating_out[1])
                 /\ rating_out[1].int \in 1..5
                 /\ IsRoundedAndClamped(rating_out[1].int, v)

(***************************************************************************)
(* Deduplicator: fingerprint, similarity, quality score, spam test         *)
(*                                                                         *)
(* A record handed to the Deduplicator has string fields title and         *)
(* content (empty when the key is absent), string fields review_id,        *)
(* user_id and app_name, an int helpful_count, a bool verified and a       *)
(* review_date that is None, [iso |-> d] (an ISO date d days before now)   *)
(* or [other |-> TRUE] (a string datetime.fromisoformat rejects).          *)
(***************************************************************************)
similarity_threshold == <<9, 10>>   \* PROCESSING_CONFIG['deduplication_threshold'] = 0.90

\* Deduplicator._get_content_hash: the string that is hashed.  MD5 is
\* taken to be collision-free, so two records have the same hash exactly
\* when these strings are equal.
_get_content_hash(review) ==
    lower(strip(review.title)) \o <<"|">> \o lower(strip(review.content))

\* str.split(): the maximal runs of non-white-space characters
RECURSIVE split(_)
split(s) ==
    IF s = <<>> THEN <<>>
    ELSE IF Head(s) \in WhiteSpace THEN split(Tail(s))
         ELSE LET n == RunLenNot(s, WhiteSpace)
              IN  <<Take(s, n)>> \o split(Drop(s, n))

\* ' '.join(words)
RECURSIVE join(_)
join(words) ==
    IF words = <<>> THEN <<>>
    ELSE IF Len(words) = 1 THEN words[1]
         ELSE words[1] \o <<" ">> \o join(Tail(words))

stop_words ==
    { <<"t","h","e">>, <<"a">>, <<"a","n">>, <<"a","n","d">>, <<"o","r">>, <<"b","u","t">>, <<"i","n">>, <<"o","n">>, <<"a","t">>,
      <<"t","o">>, <<"f","o","r">>, <<"o","f">>, <<"w","i","t","h">>, <<"b","y">> }

\* Deduplicator._normalize_for_comparison: lower case, every character
\* outside [\w\s] becomes a blank, white space is collapsed, stop words
\* are dropped
_normalize_for_comparison(t) ==
    LET lowered  == lower(t)
        spaced   == [i \in DOMAIN lowered |->
                        IF lowered[i] \in WordChar \cup WhiteSpace
                        THEN lowered[i] ELSE " "]
        no_punct == SubSeq(spaced, 1, Len(lowered))
        words    == SelectSeq(split(collapse_whitespace(no_punct)),
                              LAMBDA w : w \notin stop_words)
    IN  strip(join(words))

SetMax(S) == CHOOSE x \in S : \A y \in S : x >= y
SetMin(S) == CHOOSE x \in S : \A y \in S : x <= y

\* length of the common run of a and b starting at a[i] and b[j], inside
\* a[..ahi] and b[..bhi]
RECURSIVE CommonLen(_, _, _, _, _, _)
CommonLen(a, b, i, j, ahi, bhi) ==
    IF i > ahi \/ j > bhi \/ a[i] # b[j] THEN 0
    ELSE 1 + CommonLen(a, b, i + 1, j + 1, ahi, bhi)

\* SequenceMatcher.find_longest_match(alo, ahi, blo, bhi) without junk:
\* the longest common block <<i, j, k>>, the one starting earliest in a,
\* and of those the one starting earliest in b
find_longest_match(a, b, alo, ahi, blo, bhi) ==
    LET pairs   == (alo..ahi) \X (blo..bhi)
        len(p)  == CommonLen(a, b, p[1], p[2], ahi, bhi)
        k       == SetMax({ len(p) : p \in pairs })
        longest == { p \in pairs : len(p) = k }
        i       == SetMin({ p[1] : p \in longest })
        j       == SetMin({ p[2] : p \in { q \in longest : q[1] = i } })
    IN  <<i, j, k>>

\* number of matched characters of SequenceMatcher.get_matching_blocks():
\* the longest block, then recursively the pieces to its left and right
RECURSIVE matching_size(_, _, _, _, _, _)
matching_size(a, b, alo, ahi, blo, bhi) ==
    IF alo > ahi \/ blo > bhi THEN 0
    ELSE LET m == find_longest_match(a, b, alo, ahi, blo, bhi)
         IN  IF m[3] = 0 THEN 0
             ELSE m[3] + matching_size(a, b, alo, m[1] - 1, blo, m[2] - 1)
                       + matching_size(a, b, m[1] + m[3], ahi, m[2] + m[3], bhi)

\* SequenceMatcher(None, a, b).ratio() = 2*M/T as the fraction <<2M, T>>
\* (1.0 when both strings are empty)
ratio(a, b) ==
    IF Len(a) + Len(b) = 0 THEN <<1, 1>>
    ELSE <<2 * matching_size(a, b, 1, Len(a), 1, Len(b)), Len(a) + Len(b)>>

\* comparison of fractions with positive denominators
FracLeq(x, y) == x[1] * y[2] <= y[1] * x[2]
FracLess(x, y) == x[1] * y[2] < y[1] * x[2]
FracEq(x, y) == x[1] * y[2] = y[1] * x[2]

\* Deduplicator._calculate_similarity
_calculate_similarity(review1, review2) ==
    LET content1 == _normalize_for_comparison(review1.content)
        content2 == _normalize_for_comparison(review2.content)
        title1   == _normalize_for_comparison(review1.title)
        title2   == _normalize_for_comparison(review2.title)
        sim      == ratio(content1, content2)
        tsim     == ratio(title1, title2)
    IN  IF content1 = <<>> \/ content2 = <<>> THEN <<0, 1>>
        ELSE IF title1 # <<>> /\ title2 # <<>>
             \* similarity * 0.8 + title_similarity * 0.2
             THEN <<4 * sim[1] * tsim[2] + tsim[1] * sim[2], 5 * sim[2] * tsim[2]>>
             ELSE sim

\* quality scores are counted in units of 1/QualityUnit
QualityUnit == 14600

\* a variant of _get_quality_score whose recency term has no test of the age
_get_quality_score_any_age(review) ==
    LET content_length == Len(review.content)
    IN  (IF content_length > 50
            THEN Min(content_length * (QualityUnit \div 200), 2 * QualityUnit) ELSE 0)
      + Min(review.helpful_count * (QualityUnit \div 10), 2 * QualityUnit)
      + (IF review.verified THEN QualityUnit ELSE 0)
      + (IF review.title # <<>> THEN QualityUnit \div 2 ELSE 0)
      + (IF DOMAIN review.review_date = {"iso"}
            THEN (365 - review.review_date.iso) * (QualityUnit \div 365) ELSE 0)

\* Deduplicator._get_quality_score
_get_quality_score(review) ==
    LET content_length == Len(review.content)
        days_old       == review.review_date.iso
    IN  (IF content_length > 50
            THEN Min(content_length * (QualityUnit \div 200), 2 * QualityUnit) ELSE 0)
      + Min(review.helpful_count * (QualityUnit \div 10), 2 * QualityUnit)
      + (IF review.verified THEN QualityUnit ELSE 0)
      + (IF review.title # <<>> THEN QualityUnit \div 2 ELSE 0)
      + (IF DOMAIN review.review_date = {"iso"} /\ days_old < 365
            THEN (365 - days_old) * (QualityUnit \div 365) ELSE 0)

\* does the phrase w1\s+w2\s+... start at the head of s?
RECURSIVE PhraseAt(_, _)
PhraseAt(s, words) ==
    /\ HasPrefix(s, words[1])
    /\ \/ Len(words) = 1
       \/ LET rest == Drop(s, Len(words[1]))
              n    == RunLen(rest, WhiteSpace)
          IN  n >= 1 /\ PhraseAt(Drop(rest, n), Tail(words))

\* re.search(r'w1\s+w2...', s)
ContainsPhrase(s, words) ==
    \E i \in 0..(Len(s) - 1) : PhraseAt(Drop(s, i), words)

\* re.search(r'earn\s+\$\d+', s)
ContainsEarn(s) ==
    \E i \in 0..(Len(s) - 1) :
        LET t    == Drop(s, i)
            rest == Drop(t, 4)
            n    == RunLen(rest, WhiteSpace)
            tail == Drop(rest, n)
        IN  /\ HasPrefix(t, <<"e","a","r","n">>)
            /\ n >= 1
            /\ Len(tail) >= 2 /\ tail[1] = "$" /\ tail[2] \in Digit

\* number of the sixteen spam patterns found in the text
spam_count(s) ==
    LET hit(b) == IF b THEN 1 ELSE 0
    IN    hit(ContainsPhrase(s, <<<<"v","i","s","i","t">>, <<"m","y">>, <<"w","e","b","s","i","t","e">>>>))
        + hit(ContainsPhrase(s, <<<<"c","l","i","c","k">>, <<"h","e","r","e">>>>))
        + hit(ContainsPhrase(s, <<<<"m","a","k","e">>, <<"m","o","n","e","y">>>>))
        + hit(ContainsPhrase(s, <<<<"f","r","e","e">>, <<"m","o","n","e","y">>>>))
        + hit(ContainsEarn(s))
        + hit(ContainsPhrase(s, <<<<"w","o","r","k">>, <<"f","r","o","m">>, <<"h","o","m","e">>>>))
        + hit(ContainsPhrase(s, <<<<"b","u","y">>, <<"n","o","w">>>>))
        + hit(ContainsPhrase(s, <<<<"l","i","m","i","t","e","d">>, <<"t","i","m","e">>>>))
        + hit(ContainsPhrase(s, <<<<"a","c","t">>, <<"f","a","s","t">>>>))
        + hit(ContainsPhrase(s, <<<<"s","p","e","c","i","a","l">>, <<"o","f","f","e","r">>>>))
        + hit(Contains(s, <<"h","t","t","p",":","/","/">>) \/ Contains(s, <<"h","t","t","p","s",":","/","/">>))
        + hit(Contains(s, <<"w","w","w",".">>))
        + hit(Contains(s, <<".","c","o","m">>))
        + hit(Contains(s, <<"w","h","a","t","s","a","p","p">>))
        + hit(Contains(s, <<"t","e","l","e","g","r","a","m">>))
        + hit(ContainsPhrase(s, <<<<"c","o","n","t","a","c","t">>, <<"m","e">>>>))

\* the set of elements of a sequence
Range(s) == { s[i] : i \in DOMAIN s }

\* Deduplicator._is_spam_review.  content is lower-cased at the start, and
\* the capitalisation ratio is computed on that lower-cased content.
_is_spam_review(review) ==
    LET content       == lower(review.content)
        title         == lower(review.title)
        combined_text == title \o <<" ">> \o content
        count         == spam_count(combined_text)
        caps          == Len(SelectSeq(content, LAMBDA c : c \in Upper))
        words         == split(content)
        unique_words  == Range(words)
    IN  \/ count >= 2
        \/ Len(content) < 20 /\ count >= 1
        \* caps_ratio > 0.7
        \/ Len(content) > 10 /\ 10 * caps > 7 * Len(content)
        \* repetition_ratio = 1 - unique/total > 0.7
        \/ Len(words) > 5 /\ 10 * (Len(words) - Cardinality(unique_words)) > 7 * Len(words)

(***************************************************************************)
(* Deduplicator: the four passes                                           *)
(***************************************************************************)
\* _remove_hash_duplicates with the fault of keeping the LAST record of
\* every content hash instead of the first
_remove_hash_duplicates_keep_last(rs) ==
    LET kept[n \in 0..Len(rs)] ==
            IF n = 0 THEN <<>>
            ELSE IF \E m \in (n + 1)..Len(rs) :
                        _get_content_hash(rs[m]) = _get_content_hash(rs[n])
                 THEN kept[n - 1]
                 ELSE Append(kept[n - 1], rs[n])
    IN  kept[Len(rs)]

\* Deduplicator._remove_hash_duplicates: a record is kept when no earlier
\* record has the same content hash
RECURSIVE _remove_hash_duplicates(_)
_remove_hash_duplicates(rs) ==
    IF rs = <<>> THEN <<>>
    ELSE LET n       == Len(rs)
             earlier == _remove_hash_duplicates(Take(rs, n - 1))
         IN  IF \E i \in 1..(n - 1) : _get_content_hash(rs[i]) = _get_content_hash(rs[n])
             THEN earlier
             ELSE Append(earlier, rs[n])

\* similarity_step with the fault of replacing the accepted record also when
\* the new record's quality score is equal
similarity_step_replace_on_tie(uniques, review) ==
    LET matches == { j \in DOMAIN uniques :
                        FracLeq(similarity_threshold,
                                _calculate_similarity(review, uniques[j])) }
    IN  IF matches = {} THEN Append(uniques, review)
        ELSE LET j == SetMin(matches)
             IN  IF _get_quality_score(review) >= _get_quality_score(uniques[j])
                 THEN [uniques EXCEPT ![j] = review]
                 ELSE uniques

\* one iteration of the outer loop of _remove_similarity_duplicates:
\* unique_reviews after `review` has been compared with its entries
similarity_step(uniques, review) ==
    LET matches == { j \in DOMAIN uniques :
                        FracLeq(similarity_threshold,
                                _calculate_similarity(review, uniques[j])) }
    IN  IF matches = {} THEN Append(uniques, review)
        ELSE LET j == SetMin(matches)
             IN  IF _get_quality_score(review) > _get_quality_score(uniques[j])
                 THEN [uniques EXCEPT ![j] = review]
                 ELSE uniques

\* Deduplicator._remove_spam_reviews
_remove_spam_reviews(rs) == SelectSeq(rs, LAMBDA r : ~_is_spam_review(r))

\* the keys (user_id, app_name) of user_app_reviews in insertion order
RECURSIVE group_keys(_)
group_keys(rs) ==
    IF rs = <<>> THEN <<>>
    ELSE LET n    == Len(rs)
             keys == group_keys(Take(rs, n - 1))
             key  == <<rs[n].user_id, rs[n].app_name>>
         IN  IF key \in Range(keys) THEN keys ELSE Append(keys, key)

\* best_review with the fault of returning the LAST record with the
\* greatest score
best_review_last_of_ties(user_reviews) ==
    LET top == SetMax({ _get_quality_score(user_reviews[i]) : i \in DOMAIN user_reviews })
        i   == SetMax({ k \in DOMAIN user_reviews : _get_quality_score(user_reviews[k]) = top })
    IN  user_reviews[i]

\* max(user_reviews, key=self._get_quality_score): the first record with
\* the greatest score
best_review(user_reviews) ==
    LET top == SetMax({ _get_quality_score(user_reviews[i]) : i \in DOMAIN user_reviews })
        i   == SetMin({ k \in DOMAIN user_reviews : _get_quality_score(user_reviews[k]) = top })
    IN  user_reviews[i]

\* Deduplicator._remove_user_duplicates: one record per key, in the order
\* in which the keys first appear
_remove_user_duplicates(rs) ==
    LET keys == group_keys(rs)
    IN  [g \in DOMAIN keys |->
            best_review(SelectSeq(rs, LAMBDA r : <<r.user_id, r.app_name>> = keys[g]))]

(***************************************************************************)
(* SpecDedup: deduplicate_reviews over a batch of records                  *)
(***************************************************************************)
DedupRecord(id, user, t, c, helpful) ==
    [review_id |-> id, user_id |-> user, app_name |-> "TestApp", title |-> t,
     content |-> c, helpful_count |-> helpful, verified |-> FALSE,
     review_date |-> PyNone]

\* the five records of test_deduplicate_reviews_complete
TestReview1 == DedupRecord("1", "user1", <<>>, <<"G","r","e","a","t"," ","a","p","p","!">>, 10)
TestReview2 == DedupRecord("2", "user1", <<>>, <<"G","r","e","a","t"," ","a","p","p","!">>, 5)
TestReview3 == DedupRecord("3", "user2", <<>>, <<"T","h","i","s"," ","a","p","p"," ","i","s"," ","g","r","e","a","t","!">>, 8)
TestReview4 == DedupRecord("4", "user3", <<>>, <<"V","i","s","i","t"," ","w","w","w",".","s","p","a","m",".","c","o","m">>, 0)
TestReview5 == DedupRecord("5", "user4", <<>>, <<"C","o","m","p","l","e","t","e","l","y"," ","d","i","f","f","e","r","e","n","t"," ","r","e","v","i","e","w">>, 3)

DedupRecords ==
    { TestReview1, TestReview2, TestReview3, TestReview4, TestReview5,
      \* two Play Store records whose reviewId is missing
      DedupRecord("playstore_", "user5", <<"S","l","o","w">>, <<"I","t"," ","i","s"," ","s","l","o","w">>, 1),
      DedupRecord("playstore_", "user6", <<>>, <<"L","o","v","e"," ","i","t">>, 2),
      \* a record without review_id and user_id
      DedupRecord("", "", <<>>, <<"G","R","E","A","T"," ","A","P","P">>, 20),
      \* titles and contents with the character '|'
      DedupRecord("6", "user7", <<"a","|","b">>, <<"c">>, 0),
      DedupRecord("7", "user8", <<"a">>, <<"b","|","c">>, 0),
      \* contents made of stop words and punctuation only
      DedupRecord("8", "user9", <<>>, <<"O","n"," ","a","n","d"," ","o","n">>, 0),
      DedupRecord("9", "", <<"S","l","o","w">>, <<"o","n"," ","a","n","d"," ","o","n","!">>, 4),
      \* a content of 15 characters, 13 of them upper-case
      DedupRecord("10", "user10", <<>>, <<"G","R","E","A","T"," ","A","P","P","S"," ","R","O","C","K">>, 0) }

InitDedup ==
    /\ dedup_in \in SeqsUpTo(DedupRecords, MaxDedupBatch)
    /\ dedup_pc = "start"
    /\ after_hash = <<>>
    /\ unique_reviews = <<>>
    /\ sim_next = 1
    /\ after_spam = <<>>
    /\ final_reviews = <<>>
    /\ IdleText
    /\ IdleRating
    /\ IdleClean
    /\ IdleSim
    /\ IdleClassify
    /\ IdleClassifyReview
    /\ IdleBatch
    /\ IdleReport
    /\ IdlePipeline
    /\ IdlePrimary
    /\ IdleFrame
    /\ IdleQuality
    /\ IdleRequest

\* `if not reviews: return []`
DeduplicateEmpty ==
    /\ dedup_pc = "start"
    /\ dedup_in = <<>>
    /\ dedup_pc' = "done"
    /\ UNCHANGED <<dedup_in, after_hash, unique_reviews, sim_next, after_spam,
                   final_reviews, textVars, ratingVars, cleanVars,
                   simVars, classVars, reviewVars, batchVars, reportVars, pipeVars, primaryVars, frameVars, qualityVars, requestVars>>

\* step 1: reviews_after_hash = self._remove_hash_duplicates(reviews)
RemoveHashDuplicates ==
    /\ dedup_pc = "start"
    /\ dedup_in # <<>>
    /\ after_hash' = _remove_hash_duplicates(dedup_in)
    /\ dedup_pc' = "similarity"
    /\ UNCHANGED <<dedup_in, unique_reviews, sim_next, after_spam, final_reviews,
                   textVars, ratingVars, cleanVars,
                   simVars, classVars, reviewVars, batchVars, reportVars, pipeVars, primaryVars, frameVars, qualityVars, requestVars>>

\* step 2, one iteration of `for i, review in enumerate(reviews)`
SimilarityStep ==
    /\ dedup_pc = "similarity"
    /\ sim_next <= Len(after_hash)
    /\ unique_reviews' = similarity_step(unique_reviews, after_hash[sim_next])
    /\ sim_next' = sim_next + 1
    /\ UNCHANGED <<dedup_in, dedup_pc, after_hash, after_spam, final_reviews,
                   textVars, ratingVars, cleanVars,
                   simVars, classVars, reviewVars, batchVars, reportVars, pipeVars, primaryVars, frameVars, qualityVars, requestVars>>

\* step 3: the loop of step 2 is over, unique_reviews is
\* reviews_after_similarity; reviews_after_spam = self._remove_spam_reviews(..)
RemoveSpamReviews ==
    /\ dedup_pc = "similarity"
    /\ sim_next > Len(after_hash)
    /\ after_spam' = _remove_spam_reviews(unique_reviews)
    /\ dedup_pc' = "user"
    /\ UNCHANGED <<dedup_in, after_hash, unique_reviews, sim_next, final_reviews,
                   textVars, ratingVars, cleanVars,
                   simVars, classVars, reviewVars, batchVars, reportVars, pipeVars, primaryVars, frameVars, qualityVars, requestVars>>

\* step 4: final_reviews = self._remove_user_duplicates(reviews_after_spam)
RemoveUserDuplicates ==
    /\ dedup_pc = "user"
    /\ final_reviews' = _remove_user_duplicates(after_spam)
    /\ dedup_pc' = "done"
    /\ UNCHANGED <<dedup_in, after_hash, unique_reviews, sim_next, after_spam,
                   textVars, ratingVars, cleanVars,
                   simVars, classVars, reviewVars, batchVars, reportVars, pipeVars, primaryVars, frameVars, qualityVars, requestVars>>

NextDedup ==
    \/ DeduplicateEmpty
    \/ RemoveHashDuplicates
    \/ SimilarityStep
    \/ RemoveSpamReviews
    \/ RemoveUserDuplicates

SpecDedup == InitDedup /\ [][NextDedup]_vars

\* C20: the Pass 3 spam filter drops every record whose content is longer
\* than 10 characters and has more than 70% upper-case characters (over the
\* content as received), every record matching at least 2 spam patterns,
\* every record matching at least 1 pattern with content shorter than 20
\* characters, and every record with more than 5 words and word-repetition
\* ratio above 0.7: no such record is in the output of deduplicate_reviews.
C20_SpamFilterDrops ==
    dedup_pc = "done" =>
        \A j \in DOMAIN final_reviews :
            LET content == final_reviews[j].content
                count   == spam_count(lower(final_reviews[j].title) \o <<" ">> \o lower(content))
                caps    == Len(SelectSeq(content, LAMBDA c : c \in Upper))
                words   == split(lower(content))
            IN  /\ ~(Len(content) > 10 /\ 10 * caps > 7 * Len(content))
                /\ ~(count >= 2)
                /\ ~(Len(content) < 20 /\ count >= 1)
                /\ ~(Len(words) > 5 /\ 10 * (Len(words) - Cardinality(Range(words))) > 7 * Len(words))

\* C4: after deduplicate_reviews every surviving record has a non-empty
\* review_id and no two surviving records share a review_id.
C4_ReviewIdsUnique ==
    dedup_pc = "done" =>
        /\ \A i \in DOMAIN final_reviews : final_reviews[i].review_id # ""
        /\ \A i, j \in DOMAIN final_reviews :
              i # j => final_reviews[i].review_id # final_reviews[j].review_id

\* lower-cased, trimmed title and content of a record
TitleAndContent(r) == <<lower(strip(r.title)), lower(strip(r.content))>>

\* s is an order-preserving subsequence of t
RECURSIVE IsSubsequence(_, _)
IsSubsequence(s, t) ==
    IF s = <<>> THEN TRUE
    ELSE IF t = <<>> THEN FALSE
    ELSE IF Head(s) = Head(t) THEN IsSubsequence(Tail(s), Tail(t))
    ELSE IsSubsequence(s, Tail(t))

\* C5: Pass 1 keeps exactly the first record of every distinct lower-cased,
\* trimmed title and content: its output is an order-preserving subsequence
\* of the input, no two output records have identical title and content,
\* and every dropped record has an earlier kept record with identical title
\* and content.
C5_HashPassKeepsFirst ==
    dedup_pc \notin {"start", "idle"} =>
        /\ IsSubsequence(after_hash, dedup_in)
        /\ \A i, j \in DOMAIN after_hash :
              i # j => TitleAndContent(after_hash[i]) # TitleAndContent(after_hash[j])
        /\ \A n \in DOMAIN dedup_in :
              \/ /\ dedup_in[n] \in Range(after_hash)
                 /\ \A m \in 1..(n - 1) :
                       TitleAndContent(dedup_in[m]) # TitleAndContent(dedup_in[n])
              \/ \E m \in 1..(n - 1) :
                    /\ dedup_in[m] \in Range(after_hash)
                    /\ TitleAndContent(dedup_in[m]) = TitleAndContent(dedup_in[n])

\* C7: the two same-user records 'Great app!' (helpful 10, then 5) dedup to
\* the first one alone; in general the output holds only records of the
\* input, each at most once, and is strictly shorter than the input when
\* the input contains an exact duplicate.
C7_DedupKeepsInputRecords ==
    dedup_pc = "done" =>
        /\ dedup_in = <<TestReview1, TestReview2>> => final_reviews = <<TestReview1>>
        /\ \A i \in DOMAIN final_reviews : final_reviews[i] \in Range(dedup_in)
        /\ \A i, j \in DOMAIN final_reviews : i # j => final_reviews[i] # final_reviews[j]
        /\ (\E m, n \in DOMAIN dedup_in :
                m # n /\ TitleAndContent(dedup_in[m]) = TitleAndContent(dedup_in[n]))
              => Len(final_reviews) < Len(dedup_in)

\* the scenario of C7 has run to its end
C7_ScenarioDone ==
    /\ dedup_pc = "done"
    /\ dedup_in = <<TestReview1, TestReview2>>
    /\ final_reviews = <<TestReview1>>

(***************************************************************************)
(* SpecNearDup: deduplicate_reviews over records that are near-duplicates  *)
(* of each other, written by the same user or by no user                   *)
(***************************************************************************)
\* 'nice tool aa' / 'nice tool ab' and 'nice tool ab' / 'nice tool bb' have
\* similarity 11/12, 'nice tool aa' / 'nice tool bb' have similarity 10/12
NearDupRecords ==
    { DedupRecord("n1", "userA", <<>>, <<"n","i","c","e"," ","t","o","o","l"," ","a","a">>, 0),
      DedupRecord("n2", "userB", <<>>, <<"n","i","c","e"," ","t","o","o","l"," ","b","b">>, 10),
      DedupRecord("n3", "userC", <<>>, <<"n","i","c","e"," ","t","o","o","l"," ","a","b">>, 10),
      DedupRecord("n4", "userA", <<>>, <<"L","o","v","e"," ","i","t">>, 0),
      DedupRecord("n5", "", <<>>, <<"I","t"," ","i","s"," ","s","l","o","w">>, 2),
      DedupRecord("n6", "", <<"S","l","o","w">>, <<"B","a","d">>, 2),
      \* a record of userA for another app
      [DedupRecord("n7", "userA", <<>>, <<"W","o","r","k","s"," ","f","i","n","e">>, 1) EXCEPT !.app_name = "OtherApp"] }

InitNearDup ==
    /\ dedup_in \in SeqsUpTo(NearDupRecords, MaxDedupBatch)
    /\ dedup_pc = "start"
    /\ after_hash = <<>>
    /\ unique_reviews = <<>>
    /\ sim_next = 1
    /\ after_spam = <<>>
    /\ final_reviews = <<>>
    /\ IdleText
    /\ IdleRating
    /\ IdleClean
    /\ IdleSim
    /\ IdleClassify
    /\ IdleClassifyReview
    /\ IdleBatch
    /\ IdleReport
    /\ IdlePipeline
    /\ IdlePrimary
    /\ IdleFrame
    /\ IdleQuality
    /\ IdleRequest

SpecNearDup == InitNearDup /\ [][NextDedup]_vars

\* C21: Pass 2 handles the records in input order against the list of
\* accepted records.  In every iteration: a record whose similarity to every
\* accepted record is below the threshold is appended; otherwise only the
\* first accepted record with similarity >= threshold counts, the new
\* record takes its position if and only if its quality score is strictly
\* greater, and is discarded otherwise (so on equal quality the earlier
\* record stays).  The number of accepted records never decreases and the
\* quality score stored at a position never decreases.
C21_Pass2Step ==
    [][ (dedup_pc = "similarity" /\ sim_next' = sim_next + 1) =>
          LET review  == after_hash[sim_next]
              similar == { j \in DOMAIN unique_reviews :
                              FracLeq(similarity_threshold,
                                      _calculate_similarity(review, unique_reviews[j])) }
              first   == SetMin(similar)
          IN  /\ similar = {} => unique_reviews' = Append(unique_reviews, review)
              /\ similar # {} =>
                    IF _get_quality_score(review) > _get_quality_score(unique_reviews[first])
                    THEN unique_reviews' = [unique_reviews EXCEPT ![first] = review]
                    ELSE unique_reviews' = unique_reviews
              /\ Len(unique_reviews') >= Len(unique_reviews)
              /\ \A j \in DOMAIN unique_reviews :
                    _get_quality_score(unique_reviews'[j]) >= _get_quality_score(unique_reviews[j])
      ]_vars

\* Pass 2 is over and has discarded a record whose quality score equals that
\* of the accepted record it is similar to
C21_TieDiscarded ==
    /\ dedup_pc = "similarity"
    /\ sim_next > Len(after_hash)
    /\ \E k \in DOMAIN after_hash, j \in DOMAIN unique_reviews :
          /\ after_hash[k] \notin Range(unique_reviews)
          /\ FracLeq(similarity_threshold,
                     _calculate_similarity(after_hash[k], unique_reviews[j]))
          /\ _get_quality_score(after_hash[k]) = _get_quality_score(unique_reviews[j])

\* C22: after Pass 2 no two surviving records are near-duplicates of each
\* other: any two records at distinct positions of the output of
\* _remove_similarity_duplicates have a similarity below the threshold.
C22_NoNearDuplicatesLeft ==
    dedup_pc \in {"user", "done"} =>
        \A i, j \in DOMAIN unique_reviews :
            i # j => ~FracLeq(similarity_threshold,
                              _calculate_similarity(unique_reviews[i], unique_reviews[j]))

\* C23: after Pass 4 the output holds exactly one record per distinct
\* (user_id, app_name) pair of the input of the pass (the records with an
\* empty user_id of one app being one group), and the record kept for a
\* group is the first record of the input among those with the greatest
\* quality score of the group.
C23_OneRecordPerUserAndApp ==
    dedup_pc = "done" =>
        LET key(r)   == <<r.user_id, r.app_name>>
            keys     == { key(after_spam[i]) : i \in DOMAIN after_spam }
            group(k) == { i \in DOMAIN after_spam : key(after_spam[i]) = k }
            top(k)   == SetMax({ _get_quality_score(after_spam[i]) : i \in group(k) })
            first(k) == SetMin({ i \in group(k) : _get_quality_score(after_spam[i]) = top(k) })
        IN  /\ Len(final_reviews) = Cardinality(keys)
            /\ \A k \in keys :
                  \E j \in DOMAIN final_reviews : final_reviews[j] = after_spam[first(k)]

\* Pass 4 is over and two records of one user and app were tied for the
\* greatest quality score of their group
C23_TieInGroup ==
    /\ dedup_pc = "done"
    /\ \E i, k \in DOMAIN after_spam :
          /\ i < k
          /\ after_spam[i].user_id = after_spam[k].user_id
          /\ after_spam[i].app_name = after_spam[k].app_name
          /\ _get_quality_score(after_spam[i]) = _get_quality_score(after_spam[k])
          /\ after_spam[i] \in Range(final_reviews)

(***************************************************************************)
(* SpecSim: _calculate_similarity over a pair of records                   *)
(***************************************************************************)
SimRecords ==
    DedupRecords \cup
    { \* a record without content
      DedupRecord("10", "user10", <<"E","m","p","t","y">>, <<>>, 0),
      \* records with a title, for the blend of content and title similarity
      DedupRecord("11", "user11", <<"G","r","e","a","t">>, <<"G","r","e","a","t"," ","a","p","p">>, 0),
      DedupRecord("12", "user12", <<"N","o","t"," ","g","r","e","a","t">>, <<"T","h","i","s"," ","a","p","p"," ","i","s"," ","n","o","t"," ","g","r","e","a","t">>, 0),
      \* content and title are one stop word
      DedupRecord("13", "user13", <<"T","h","e">>, <<"t","h","e">>, 0) }

InitSim ==
    /\ sim_review1 \in SimRecords
    /\ sim_review2 \in SimRecords
    /\ similarity = <<>>
    /\ IdleText
    /\ IdleRating
    /\ IdleClean
    /\ IdleDedup
    /\ IdleClassify
    /\ IdleClassifyReview
    /\ IdleBatch
    /\ IdleReport
    /\ IdlePipeline
    /\ IdlePrimary
    /\ IdleFrame
    /\ IdleQuality
    /\ IdleRequest

\* one call self._calculate_similarity(review1, review2)
CalculateSimilarity ==
    /\ similarity = <<>>
    /\ similarity' = <<_calculate_similarity(sim_review1, sim_review2)>>
    /\ UNCHANGED <<sim_review1, sim_review2, textVars, ratingVars, cleanVars,
                   dedupVars, classVars, reviewVars, batchVars, reportVars, pipeVars, primaryVars, frameVars, qualityVars, requestVars>>

NextSim == CalculateSimilarity

SpecSim == InitSim /\ [][NextSim]_vars

\* C6: the similarity of a record with non-empty content to itself is 1.0,
\* every similarity lies in [0, 1], and the similarity is 0 when the content
\* of either record is empty.
C6_SimilarityBounds ==
    similarity # <<>> =>
        LET s == similarity[1]
        IN  /\ (sim_review1 = sim_review2 /\ sim_review1.content # <<>>)
                  => FracEq(s, <<1, 1>>)
            /\ FracLeq(<<0, 1>>, s) /\ FracLeq(s, <<1, 1>>)
            /\ (sim_review1.content = <<>> \/ sim_review2.content = <<>>)
                  => FracEq(s, <<0, 1>>)

(***************************************************************************)
(* ReviewClassifier: category scores and sentiment                         *)
(*                                                                         *)
(* Scores are fractions.  A sentiment result is the record                 *)
(* [sentiment |-> label, sentiment_score |-> fraction].                    *)
(***************************************************************************)
\* REVIEW_CATEGORIES: the categories in the order of the dictionary, each
\* with its keywords
REVIEW_CATEGORIES ==
    << [id |-> "ux_ui",
        keywords |-> << <<"i","n","t","e","r","f","a","c","e">>, <<"d","e","s","i","g","n">>, <<"u","s","a","b","i","l","i","t","y">>, <<"n","a","v","i","g","a","t","i","o","n">>,
                        <<"u","i">>, <<"u","x">>, <<"u","s","e","r","-","f","r","i","e","n","d","l","y">> >>],
       [id |-> "pricing",
        keywords |-> << <<"p","r","i","c","e">>, <<"c","o","s","t">>, <<"e","x","p","e","n","s","i","v","e">>, <<"c","h","e","a","p">>, <<"b","i","l","l","i","n","g">>,
                        <<"s","u","b","s","c","r","i","p","t","i","o","n">>, <<"p","a","y","m","e","n","t">> >>],
       [id |-> "performance",
        keywords |-> << <<"s","l","o","w">>, <<"f","a","s","t">>, <<"l","a","g">>, <<"c","r","a","s","h">>, <<"b","u","g">>, <<"s","t","a","b","l","e">>,
                        <<"p","e","r","f","o","r","m","a","n","c","e">>, <<"l","o","a","d","i","n","g">> >>],
       [id |-> "features",
        keywords |-> << <<"f","e","a","t","u","r","e">>, <<"f","u","n","c","t","i","o","n">>, <<"c","a","p","a","b","i","l","i","t","y">>, <<"t","o","o","l">>,
                        <<"o","p","t","i","o","n">>, <<"m","i","s","s","i","n","g">>, <<"n","e","e","d">> >>],
       [id |-> "customer_service",
        keywords |-> << <<"s","u","p","p","o","r","t">>, <<"h","e","l","p">>, <<"s","e","r","v","i","c","e">>, <<"r","e","s","p","o","n","s","e">>, <<"s","t","a","f","f">>,
                        <<"c","u","s","t","o","m","e","r"," ","c","a","r","e">> >>],
       [id |-> "content_quality",
        keywords |-> << <<"c","o","n","t","e","n","t">>, <<"q","u","a","l","i","t","y">>, <<"s","e","l","e","c","t","i","o","n">>, <<"v","a","r","i","e","t","y">>,
                        <<"c","a","t","a","l","o","g">>, <<"l","i","b","r","a","r","y">> >>] >>

CategoryIds == { REVIEW_CATEGORIES[c].id : c \in DOMAIN REVIEW_CATEGORIES }

\* re \b between s[i] and s[i+1] (i = 0: before the first character,
\* i = Len(s): after the last)
IsWordBoundary(s, i) ==
    (i >= 1 /\ s[i] \in WordChar) # (i < Len(s) /\ s[i + 1] \in WordChar)

\* len(re.findall(r'\b' + re.escape(keyword) + r'\b', s)), scanning from
\* position i: matches are taken left to right and do not overlap
RECURSIVE keyword_count(_, _, _)
keyword_count(s, keyword, i) ==
    LET last == i + Len(keyword) - 1
    IN  IF last > Len(s) THEN 0
        ELSE IF /\ s[i] = keyword[1]
                /\ SubSeq(s, i, last) = keyword
                /\ IsWordBoundary(s, i - 1)
                /\ IsWordBoundary(s, last)
             THEN 1 + keyword_count(s, keyword, last + 1)
             ELSE keyword_count(s, keyword, i + 1)

\* twice the weight len(keyword.split()) * 0.5 + 1.0
weight(keyword) == Len(split(keyword)) + 2

\* twice the raw score of a category: the sum over its keywords of
\* keyword_count * weight
RECURSIVE score(_, _)
score(text_lower, keywords) ==
    IF keywords = <<>> THEN 0
    ELSE keyword_count(text_lower, lower(Head(keywords)), 1) * weight(Head(keywords))
         + score(text_lower, Tail(keywords))

FracMin(x, y) == IF FracLeq(x, y) THEN x ELSE y
FracMax(x, y) == IF FracLeq(y, x) THEN x ELSE y

\* score / (len(text.split()) * 0.1 + 1), with the doubled score s2 and
\* n = len(text.split()): (s2 / 2) / ((n + 10) / 10) = 5 * s2 / (n + 10)
normalized_score(s2, n) == <<5 * s2, n + 10>>

\* _calculate_category_scores with the fault of leaving out the cap at 1.0
_calculate_category_scores_uncapped(t) ==
    LET text_lower == lower(t)
        n          == Len(split(t))
    IN  [id \in CategoryIds |->
            LET category_data == CHOOSE c \in Range(REVIEW_CATEGORIES) : c.id = id
            IN  IF n > 0
                THEN normalized_score(score(text_lower, category_data.keywords), n)
                ELSE <<0, 1>>]

\* ReviewClassifier._calculate_category_scores
_calculate_category_scores(t) ==
    LET text_lower == lower(t)
        n          == Len(split(t))
    IN  [id \in CategoryIds |->
            LET category_data == CHOOSE c \in Range(REVIEW_CATEGORIES) : c.id = id
            IN  IF n > 0
                THEN FracMin(normalized_score(score(text_lower, category_data.keywords), n),
                             <<1, 1>>)
                ELSE <<0, 1>>]

positive_keywords ==
    (<<"e","x","c","e","l","l","e","n","t">> :> 3) @@ (<<"a","m","a","z","i","n","g">> :> 3) @@ (<<"o","u","t","s","t","a","n","d","i","n","g">> :> 3) @@ (<<"f","a","n","t","a","s","t","i","c">> :> 3) @@
    (<<"g","r","e","a","t">> :> 2) @@ (<<"g","o","o","d">> :> 2) @@ (<<"w","o","n","d","e","r","f","u","l">> :> 2) @@ (<<"a","w","e","s","o","m","e">> :> 3) @@ (<<"l","o","v","e">> :> 2) @@
    (<<"b","e","s","t">> :> 2) @@ (<<"p","e","r","f","e","c","t">> :> 3) @@ (<<"b","r","i","l","l","i","a","n","t">> :> 2) @@ (<<"s","u","p","e","r","b">> :> 2) @@
    (<<"l","i","k","e">> :> 1) @@ (<<"n","i","c","e">> :> 1) @@ (<<"f","i","n","e">> :> 1) @@ (<<"o","k","a","y">> :> 1) @@ (<<"d","e","c","e","n","t">> :> 1) @@
    (<<"h","e","l","p","f","u","l">> :> 1) @@ (<<"u","s","e","f","u","l">> :> 1) @@ (<<"e","a","s","y">> :> 1) @@ (<<"s","m","o","o","t","h">> :> 1) @@ (<<"f","a","s","t">> :> 1)

negative_keywords ==
    (<<"t","e","r","r","i","b","l","e">> :> 3) @@ (<<"a","w","f","u","l">> :> 3) @@ (<<"h","o","r","r","i","b","l","e">> :> 3) @@ (<<"d","i","s","g","u","s","t","i","n","g">> :> 3) @@ (<<"t","r","a","s","h">> :> 3) @@
    (<<"b","a","d">> :> 2) @@ (<<"p","o","o","r">> :> 2) @@ (<<"w","o","r","s","t">> :> 3) @@ (<<"h","a","t","e">> :> 2) @@ (<<"u","s","e","l","e","s","s">> :> 2) @@
    (<<"b","r","o","k","e","n">> :> 2) @@ (<<"b","u","g","g","y">> :> 2) @@ (<<"s","l","o","w">> :> 2) @@ (<<"c","r","a","s","h">> :> 2) @@ (<<"f","r","e","e","z","e","s">> :> 2) @@
    (<<"d","i","s","a","p","p","o","i","n","t","e","d">> :> 2) @@ (<<"f","r","u","s","t","r","a","t","e","d">> :> 2) @@ (<<"a","n","n","o","y","i","n","g">> :> 1) @@ (<<"c","o","n","f","u","s","i","n","g">> :> 1) @@
    (<<"d","i","f","f","i","c","u","l","t">> :> 1) @@ (<<"h","a","r","d">> :> 1) @@ (<<"p","r","o","b","l","e","m">> :> 1) @@ (<<"i","s","s","u","e">> :> 1) @@ (<<"e","r","r","o","r">> :> 1)

\* re.findall(r'\b\w+\b', s): the maximal runs of word characters.  The
\* text is cut at the character nearest to its middle that is not a word
\* character; a text without such a character is one run.
RECURSIVE findall_words(_)
findall_words(s) ==
    LET breaks == { i \in DOMAIN s : s[i] \notin WordChar }
        off(i) == IF 2 * i >= Len(s) THEN 2 * i - Len(s) ELSE Len(s) - 2 * i
    IN  IF s = <<>> THEN <<>>
        ELSE IF breaks = {} THEN <<s>>
        ELSE LET cut == CHOOSE i \in breaks : \A j \in breaks : off(i) <= off(j)
             IN  findall_words(SubSeq(s, 1, cut - 1))
                    \o findall_words(SubSeq(s, cut + 1, Len(s)))

\* positive_score after the loop over words
RECURSIVE positive_score(_)
positive_score(words) ==
    IF words = <<>> THEN 0
    ELSE (IF Head(words) \in DOMAIN positive_keywords
             THEN positive_keywords[Head(words)] ELSE 0)
         + positive_score(Tail(words))

\* negative_score after the loop over words (the elif branch)
RECURSIVE negative_score(_)
negative_score(words) ==
    IF words = <<>> THEN 0
    ELSE (IF /\ Head(words) \notin DOMAIN positive_keywords
             /\ Head(words) \in DOMAIN negative_keywords
             THEN negative_keywords[Head(words)] ELSE 0)
         + negative_score(Tail(words))

\* _analyze_sentiment with the fault of comparing the net score with the
\* thresholds inclusively (>= 0.02, <= -0.02)
_analyze_sentiment_inclusive(t) ==
    LET words       == findall_words(lower(t))
        total_words == Len(words)
        net         == positive_score(words) - negative_score(words)
    IN  IF total_words = 0
        THEN [sentiment |-> "neutral", sentiment_score |-> <<0, 1>>]
        ELSE [sentiment |->
                  IF 50 * net >= total_words THEN "positive"
                  ELSE IF 50 * net <= - total_words THEN "negative"
                  ELSE "neutral",
              sentiment_score |->
                  FracMax(<<-1, 1>>, FracMin(<<1, 1>>, <<10 * net, total_words>>))]

\* _analyze_sentiment with the fault of leaving out the clamp to [-1, 1]
_analyze_sentiment_unclamped(t) ==
    LET words       == findall_words(lower(t))
        total_words == Len(words)
        net         == positive_score(words) - negative_score(words)
    IN  IF total_words = 0
        THEN [sentiment |-> "neutral", sentiment_score |-> <<0, 1>>]
        ELSE [sentiment |->
                  IF 50 * net > total_words THEN "positive"
                  ELSE IF 50 * net < - total_words THEN "negative"
                  ELSE "neutral",
              sentiment_score |-> <<10 * net, total_words>>]

\* ReviewClassifier._analyze_sentiment.  net_score = net / total_words;
\* net_score > 0.02 is 50 * net > total_words.
_analyze_sentiment(t) ==
    LET words       == findall_words(lower(t))
        total_words == Len(words)
        net         == positive_score(words) - negative_score(words)
    IN  IF total_words = 0
        THEN [sentiment |-> "neutral", sentiment_score |-> <<0, 1>>]
        ELSE [sentiment |->
                  IF 50 * net > total_words THEN "positive"
                  ELSE IF 50 * net < - total_words THEN "negative"
                  ELSE "neutral",
              sentiment_score |->
                  FracMax(<<-1, 1>>, FracMin(<<1, 1>>, <<10 * net, total_words>>))]

(***************************************************************************)
(* SpecClassify: _calculate_category_scores and _analyze_sentiment on a    *)
(* text, then _analyze_sentiment on the text with a positive word appended *)
(***************************************************************************)
ClassifyWords ==
    { <<"l","i","k","e">>, <<"E","x","c","e","l","l","e","n","t","!">>, <<"s","l","o","w">>, <<"u","i">>, <<"c","u","s","t","o","m","e","r"," ","c","a","r","e">> }

\* n times the word 'app'
RECURSIVE Fillers(_)
Fillers(n) == IF n = 0 THEN <<>> ELSE <<<<"a","p","p">>>> \o Fillers(n - 1)

ClassifyTexts ==
    { join(Fillers(k) \o ws) : k \in 0..MaxFiller, ws \in SeqsUpTo(ClassifyWords, MaxWords) }
    \cup { <<" "," "," ">>, <<"!","!","!">>, <<"U","I","/","U","X",":"," ","s","l","o","w",","," ","s","l","o","w",","," ","s","l","o","w","!">>,
           <<"N","o","t"," ","u","s","e","r","-","f","r","i","e","n","d","l","y",":"," ","i","t"," ","c","r","a","s","h","e","s">>, <<"c","r","a","s","h"," ","c","r","a","s","h">> }

InitClassify ==
    /\ class_text \in ClassifyTexts
    /\ category_scores = <<>>
    /\ sentiments = <<>>
    /\ appended_word = <<>>
    /\ IdleText
    /\ IdleRating
    /\ IdleClean
    /\ IdleDedup
    /\ IdleSim
    /\ IdleClassifyReview
    /\ IdleBatch
    /\ IdleReport
    /\ IdlePipeline
    /\ IdlePrimary
    /\ IdleFrame
    /\ IdleQuality
    /\ IdleRequest

\* category_scores = self._calculate_category_scores(combined_text)
CalculateCategoryScores ==
    /\ category_scores = <<>>
    /\ category_scores' = <<_calculate_category_scores(class_text)>>
    /\ UNCHANGED <<class_text, sentiments, appended_word, textVars, ratingVars,
                   cleanVars, dedupVars, simVars, reviewVars, batchVars, reportVars, pipeVars, primaryVars, frameVars, qualityVars, requestVars>>

\* sentiment, sentiment_score = self._analyze_sentiment(combined_text):
\* first on the text, then on the text with the appended word
AnalyzeSentiment ==
    /\ category_scores # <<>>
    /\ \/ sentiments = <<>> /\ appended_word = <<>>
       \/ Len(sentiments) = 1 /\ appended_word # <<>>
    /\ sentiments' = Append(sentiments,
                            _analyze_sentiment(IF appended_word = <<>> THEN class_text
                                               ELSE class_text \o <<" ">> \o appended_word))
    /\ UNCHANGED <<class_text, category_scores, appended_word, textVars, ratingVars,
                   cleanVars, dedupVars, simVars, reviewVars, batchVars, reportVars, pipeVars, primaryVars, frameVars, qualityVars, requestVars>>

\* the caller extends the text by one word of the positive lexicon
AppendPositiveWord ==
    /\ Len(sentiments) = 1
    /\ appended_word = <<>>
    /\ \E p \in DOMAIN positive_keywords : appended_word' = p
    /\ UNCHANGED <<class_text, category_scores, sentiments, textVars, ratingVars,
                   cleanVars, dedupVars, simVars, reviewVars, batchVars, reportVars, pipeVars, primaryVars, frameVars, qualityVars, requestVars>>

NextClassify ==
    \/ CalculateCategoryScores
    \/ AnalyzeSentiment
    \/ AppendPositiveWord

SpecClassify == InitClassify /\ [][NextClassify]_vars

\* C8: every category score is in [0, 1], and a text with no words has
\* score 0 in every category.
C8_CategoryScoresBounded ==
    category_scores # <<>> =>
        /\ DOMAIN category_scores[1] = CategoryIds
        /\ \A id \in CategoryIds :
              /\ FracLeq(<<0, 1>>, category_scores[1][id])
              /\ FracLeq(category_scores[1][id], <<1, 1>>)
        /\ split(class_text) = <<>> =>
              \A id \in CategoryIds : FracEq(category_scores[1][id], <<0, 1>>)

\* a text whose raw ux_ui score exceeds 1 has been scored, and the score
\* reported is 1
C8_ScoreCapped ==
    /\ category_scores # <<>>
    /\ FracLess(<<1, 1>>, _calculate_category_scores_uncapped(class_text)["ux_ui"])
    /\ FracEq(category_scores[1]["ux_ui"], <<1, 1>>)

\* C9: appending a word of the positive lexicon to a text never lowers its
\* sentiment_score.
C9_SentimentMonotone ==
    Len(sentiments) = 2 =>
        FracLeq(sentiments[1].sentiment_score, sentiments[2].sentiment_score)

\* a text with a positive score below 1 got a higher score, still below 1,
\* after a positive word was appended
C9_ScoreRaised ==
    /\ Len(sentiments) = 2
    /\ appended_word \in DOMAIN positive_keywords
    /\ FracLess(<<0, 1>>, sentiments[1].sentiment_score)
    /\ FracLess(sentiments[1].sentiment_score, sentiments[2].sentiment_score)
    /\ FracLess(sentiments[2].sentiment_score, <<1, 1>>)

(***************************************************************************)
(* SpecSentiment: _analyze_sentiment called on a text                      *)
(***************************************************************************)
\* the largest number of one-letter words before the words of the lexicon
MaxSentimentFillers == 49

\* texts of k one-letter words and up to two words of the lexicons: with 49
\* one-letter words and one word of weight 1 the net score is 1/50 = 0.02
SentimentTexts ==
    { [i \in 1..(2 * k) |-> IF i % 2 = 1 THEN "a" ELSE " "] \o join(ws) :
        k \in {0, 1, 2} \cup ((MaxSentimentFillers - 5)..MaxSentimentFillers),
        ws \in SeqsUpTo({ <<"l","i","k","e">>, <<"h","a","r","d">>,
                          <<"g","o","o","d">>, <<"a","w","f","u","l">> }, 2) }
      \cup { <<" "," "," ">>, <<"!","!","!">> }

InitSentiment ==
    /\ class_text \in SentimentTexts
    /\ category_scores = <<>>
    /\ sentiments = <<>>
    /\ appended_word = <<>>
    /\ IdleText
    /\ IdleRating
    /\ IdleClean
    /\ IdleDedup
    /\ IdleSim
    /\ IdleClassifyReview
    /\ IdleBatch
    /\ IdleReport
    /\ IdlePipeline
    /\ IdlePrimary
    /\ IdleFrame
    /\ IdleQuality
    /\ IdleRequest

\* sentiment, score = classifier._analyze_sentiment(text), as the tests call it
AnalyzeSentimentCall ==
    /\ sentiments = <<>>
    /\ sentiments' = <<_analyze_sentiment(class_text)>>
    /\ UNCHANGED <<class_text, category_scores, appended_word, textVars, ratingVars,
                   cleanVars, dedupVars, simVars, reviewVars, batchVars, reportVars, pipeVars, primaryVars, frameVars, qualityVars, requestVars>>

NextSentiment == AnalyzeSentimentCall

SpecSentiment == InitSentiment /\ [][NextSentiment]_vars

\* C25: _analyze_sentiment returns a label in {positive, negative, neutral}
\* and a score in [-1,1] that agree.  With net = (sum of the positive
\* weights - sum of the negative weights) / token_count the label is
\* positive iff net > 0.02, negative iff net < -0.02 and neutral otherwise,
\* and the score is clamp(net * 10, -1, 1); so a positive label comes with
\* a score > 0, a negative label with a score < 0, and a text without
\* tokens gives ('neutral', 0).
C25_SentimentLabelAndScore ==
    \A i \in DOMAIN sentiments :
        LET t      == IF i = 1 THEN class_text ELSE class_text \o <<" ">> \o appended_word
            tokens == findall_words(lower(t))
            count  == Len(tokens)
            weight_sum == positive_score(tokens) - negative_score(tokens)
            label  == sentiments[i].sentiment
            s      == sentiments[i].sentiment_score
        IN  /\ label \in {"positive", "negative", "neutral"}
            /\ FracLeq(<<-1, 1>>, s) /\ FracLeq(s, <<1, 1>>)
            /\ count = 0 => label = "neutral" /\ FracEq(s, <<0, 1>>)
            /\ count > 0 =>
                  /\ label = "positive" <=> FracLess(<<2, 100>>, <<weight_sum, count>>)
                  /\ label = "negative" <=> FracLess(<<weight_sum, count>>, <<-2, 100>>)
                  /\ FracEq(s, IF 10 * weight_sum > count THEN <<1, 1>>
                               ELSE IF 10 * weight_sum < - count THEN <<-1, 1>>
                               ELSE <<10 * weight_sum, count>>)
            /\ label = "positive" => FracLess(<<0, 1>>, s)
            /\ label = "negative" => FracLess(s, <<0, 1>>)

\* a text whose net score is exactly 0.02 has been labelled neutral
C25_NeutralAtThreshold ==
    /\ sentiments # <<>>
    /\ LET tokens == findall_words(lower(class_text))
       IN  /\ tokens # <<>>
           /\ 50 * (positive_score(tokens) - negative_score(tokens)) = Len(tokens)
    /\ sentiments[1].sentiment = "neutral"

(***************************************************************************)
(* ReviewClassifier: primary category and classify_review                  *)
(***************************************************************************)
confidence_threshold == <<3, 10>>   \* PROCESSING_CONFIG['classification_confidence_threshold'] = 0.3

FracAdd(x, y) == <<x[1] * y[2] + y[1] * x[2], x[2] * y[2]>>
FracSub(x, y) == <<x[1] * y[2] - y[1] * x[2], x[2] * y[2]>>

\* the keys of a score mapping in the order of the dictionary
category_order(scores) ==
    SelectSeq([c \in DOMAIN REVIEW_CATEGORIES |-> REVIEW_CATEGORIES[c].id],
              LAMBDA id : id \in DOMAIN scores)

\* _get_primary_category with the fault of zeroing the confidence when the
\* result is overridden to 'unclassified'
_get_primary_category_zeroed(scores) ==
    IF DOMAIN scores = {} THEN <<"unclassified", <<0, 1>>>>
    ELSE LET order  == category_order(scores)
             top    == SetMin({ k \in DOMAIN order :
                                  \A j \in DOMAIN order :
                                      FracLeq(scores[order[j]], scores[order[k]]) })
             primary_category == order[top]
             max_score        == scores[primary_category]
             second == IF Len(order) < 2 THEN <<0, 1>>
                       ELSE LET k2 == CHOOSE k \in DOMAIN order \ {top} :
                                         \A j \in DOMAIN order \ {top} :
                                             FracLeq(scores[order[j]], scores[order[k]])
                            IN  scores[order[k2]]
             confidence == IF Len(order) < 2 \/ FracEq(max_score, <<0, 1>>)
                           THEN max_score
                           ELSE FracMin(FracAdd(max_score, FracSub(max_score, second)),
                                        <<1, 1>>)
         IN  IF FracLess(confidence, confidence_threshold)
             THEN <<"unclassified", <<0, 1>>>>
             ELSE <<primary_category, confidence>>

\* _get_primary_category with the fault of taking the category with the
\* LOWEST score as primary category
_get_primary_category_lowest(scores) ==
    IF DOMAIN scores = {} THEN <<"unclassified", <<0, 1>>>>
    ELSE LET order  == category_order(scores)
             first  == SetMin({ k \in DOMAIN order :
                                  \A j \in DOMAIN order :
                                      FracLeq(scores[order[k]], scores[order[j]]) })
             top    == SetMin({ k \in DOMAIN order :
                                  \A j \in DOMAIN order :
                                      FracLeq(scores[order[j]], scores[order[k]]) })
             primary_category == order[first]
             max_score        == scores[primary_category]
             second == IF Len(order) < 2 THEN <<0, 1>>
                       ELSE LET k2 == CHOOSE k \in DOMAIN order \ {top} :
                                         \A j \in DOMAIN order \ {top} :
                                             FracLeq(scores[order[j]], scores[order[k]])
                            IN  scores[order[k2]]
             confidence == IF Len(order) < 2 \/ FracEq(scores[order[top]], <<0, 1>>)
                           THEN max_score
                           ELSE FracMin(FracAdd(max_score, FracSub(scores[order[top]], second)),
                                        <<1, 1>>)
         IN  IF FracLess(confidence, confidence_threshold)
             THEN <<"unclassified", confidence>>
             ELSE <<primary_category, confidence>>

\* ReviewClassifier._get_primary_category: <<primary_category, confidence>>.
\* max(category_scores, key=category_scores.get) is the first key, in the
\* order of the dictionary, with the greatest score; sorted_scores[1] is
\* the greatest score of the other keys.
_get_primary_category(scores) ==
    IF DOMAIN scores = {} THEN <<"unclassified", <<0, 1>>>>
    ELSE LET order  == category_order(scores)
             top    == SetMin({ k \in DOMAIN order :
                                  \A j \in DOMAIN order :
                                      FracLeq(scores[order[j]], scores[order[k]]) })
             primary_category == order[top]
             max_score        == scores[primary_category]
             second == IF Len(order) < 2 THEN <<0, 1>>
                       ELSE LET k2 == CHOOSE k \in DOMAIN order \ {top} :
                                         \A j \in DOMAIN order \ {top} :
                                             FracLeq(scores[order[j]], scores[order[k]])
                            IN  scores[order[k2]]
             confidence == IF Len(order) < 2 \/ FracEq(max_score, <<0, 1>>)
                           THEN max_score
                           ELSE FracMin(FracAdd(max_score, FracSub(max_score, second)),
                                        <<1, 1>>)
         IN  IF FracLess(confidence, confidence_threshold)
             THEN <<"unclassified", confidence>>
             ELSE <<primary_category, confidence>>

\* ReviewClassifier._extract_keywords: the set of keywords found in the text
_extract_keywords(t) ==
    LET text_lower == lower(t)
    IN  { kw \in UNION { Range(REVIEW_CATEGORIES[c].keywords) : c \in DOMAIN REVIEW_CATEGORIES } :
            keyword_count(text_lower, lower(kw), 1) > 0 }

\* str(x) inside an f-string: None is written 'None'
format_field(x) == IF x = NoneText THEN <<"N","o","n","e">> ELSE x

\* f"{title} {content}".strip()
combined_text_of(review) ==
    strip(format_field(review.title) \o <<" ">> \o format_field(review.content))

\* classify_review with the fault of returning the copy of a record with
\* empty text as it is, without the classification fields
classify_review_bare(review) ==
    LET combined_text == combined_text_of(review)
    IN  IF combined_text = <<>> THEN review
        ELSE LET scores  == _calculate_category_scores(combined_text)
                 primary == _get_primary_category(scores)
                 senti   == _analyze_sentiment(combined_text)
             IN  [primary_category |-> primary[1],
                  category_scores |-> scores,
                  classification_confidence |-> primary[2],
                  sentiment |-> senti.sentiment,
                  sentiment_score |-> senti.sentiment_score,
                  keywords_found |-> _extract_keywords(combined_text),
                  classified_at |-> "now"] @@ review

\* ReviewClassifier.classify_review: the copy of the record, updated with
\* the classification fields.  A record is [title, content]; a missing key
\* reads as the empty string, None as NoneText.
classify_review(review) ==
    LET combined_text == combined_text_of(review)
    IN  IF combined_text = <<>>
        THEN [primary_category |-> "unclassified",
              category_scores |-> <<>>,
              classification_confidence |-> <<0, 1>>,
              sentiment |-> "neutral",
              sentiment_score |-> <<0, 1>>] @@ review
        ELSE LET scores  == _calculate_category_scores(combined_text)
                 primary == _get_primary_category(scores)
                 senti   == _analyze_sentiment(combined_text)
             IN  [primary_category |-> primary[1],
                  category_scores |-> scores,
                  classification_confidence |-> primary[2],
                  sentiment |-> senti.sentiment,
                  sentiment_score |-> senti.sentiment_score,
                  keywords_found |-> _extract_keywords(combined_text),
                  classified_at |-> "now"] @@ review

(***************************************************************************)
(* SpecClassifyReview: classify_review on one record                       *)
(***************************************************************************)
\* content and title of test_classify_review_complete
ScenarioContent == <<"T","h","e"," ","a","p","p"," ","i","n","t","e","r","f","a","c","e"," ","i","s"," ","r","e","a","l","l","y"," ","c","o","n","f","u","s","i","n","g"," ","a","n","d"," ","h","a","r","d"," ","t","o"," ","u","s","e">>
ScenarioTitle == <<"P","o","o","r"," ","U","X"," ","D","e","s","i","g","n">>

ClassifyTitles ==
    { <<>>, ScenarioTitle, <<" ">>, <<"S","l","o","w">>, NoneText }

ClassifyContents ==
    { join(ws) : ws \in SeqsUpTo(ClassifyWords, MaxWords) }
    \cup { ScenarioContent, <<" "," "," ">>, <<"<TAB>","<LF>">>, <<"!","!","!">>, NoneText,
           <<"s","l","o","w"," ","p","r","i","c","e">>, <<"u","i"," ","p","r","i","c","e">>, <<"p","r","i","c","e"," ","u","i">>,
           <<"a","p","p"," ","a","p","p"," ","a","p","p"," ","a","p","p"," ","a","p","p"," ","a","p","p"," ","a","p","p"," ","a","p","p"," ","a","p","p"," ","h","e","l","p">> }

InitClassifyReview ==
    /\ classify_in \in [title : ClassifyTitles, content : ClassifyContents]
    /\ classified_review = <<>>
    /\ IdleText
    /\ IdleRating
    /\ IdleClean
    /\ IdleDedup
    /\ IdleSim
    /\ IdleClassify
    /\ IdleBatch
    /\ IdleReport
    /\ IdlePipeline
    /\ IdlePrimary
    /\ IdleFrame
    /\ IdleQuality
    /\ IdleRequest

\* one call self.classify_review(review)
ClassifyReview ==
    /\ classified_review = <<>>
    /\ classified_review' = <<classify_review(classify_in)>>
    /\ UNCHANGED <<classify_in, textVars, ratingVars, cleanVars, dedupVars,
                   simVars, classVars, batchVars, reportVars, pipeVars, primaryVars, frameVars, qualityVars, requestVars>>

NextClassifyReview == ClassifyReview

SpecClassifyReview == InitClassifyReview /\ [][NextClassifyReview]_vars

\* C11: the record with content 'The app interface is really confusing and
\* hard to use', with no title or with title 'Poor UX Design', is classified
\* as primary_category 'ux_ui' with sentiment 'negative'.
C11_ScenarioClassified ==
    (/\ classified_review # <<>>
     /\ classify_in.content = ScenarioContent
     /\ classify_in.title \in {<<>>, ScenarioTitle})
        => /\ classified_review[1].primary_category = "ux_ui"
           /\ classified_review[1].sentiment = "negative"

\* the scenario record with its title has been classified as ux_ui
C11_ScenarioDone ==
    /\ classified_review # <<>>
    /\ classify_in = [title |-> ScenarioTitle, content |-> ScenarioContent]
    /\ classified_review[1].primary_category = "ux_ui"

\* C12: a record whose title and content, joined by a blank and trimmed,
\* are empty is classified as 'unclassified' and 'neutral' with
\* sentiment_score 0 and classification_confidence 0.
C12_EmptyTextUnclassified ==
    (classified_review # <<>> /\ combined_text_of(classify_in) = <<>>)
        => LET r == classified_review[1]
           IN  /\ {"primary_category", "sentiment", "sentiment_score",
                   "classification_confidence"} \subseteq DOMAIN r
               /\ r.primary_category = "unclassified"
               /\ r.sentiment = "neutral"
               /\ FracEq(r.sentiment_score, <<0, 1>>)
               /\ FracEq(r.classification_confidence, <<0, 1>>)

\* a record with blank title and blank content has been classified
C12_BlankClassified ==
    /\ classified_review # <<>>
    /\ classify_in = [title |-> <<" ">>, content |-> <<" "," "," ">>]
    /\ classified_review[1].primary_category = "unclassified"

(***************************************************************************)
(* SpecPrimary: _get_primary_category on one score mapping                 *)
(***************************************************************************)
MaxScoreKeys == 3   \* a score mapping has at most the first MaxScoreKeys categories as keys

\* scores in tenths; 0.8, 0.3 and 0.1 are those of test_get_primary_category
ScoreValues == { <<n, 10>> : n \in {0, 1, 2, 3, 5, 8, 10} }

ScoreMappings ==
    UNION { [keys -> ScoreValues] :
              keys \in SUBSET { REVIEW_CATEGORIES[c].id : c \in 1..MaxScoreKeys } }

InitPrimary ==
    /\ primary_in \in { <<scores>> : scores \in ScoreMappings }
    /\ primary_out = <<>>
    /\ IdleText
    /\ IdleRating
    /\ IdleClean
    /\ IdleDedup
    /\ IdleSim
    /\ IdleClassify
    /\ IdleClassifyReview
    /\ IdleBatch
    /\ IdleReport
    /\ IdlePipeline
    /\ IdleFrame
    /\ IdleQuality
    /\ IdleRequest

\* primary_category, confidence = self._get_primary_category(category_scores)
GetPrimaryCategory ==
    /\ primary_out = <<>>
    /\ primary_out' = <<_get_primary_category(primary_in[1])>>
    /\ UNCHANGED <<primary_in, textVars, ratingVars, cleanVars, dedupVars, simVars, classVars,
                   reviewVars, batchVars, reportVars, pipeVars, frameVars, qualityVars, requestVars>>

NextPrimary == GetPrimaryCategory

SpecPrimary == InitPrimary /\ [][NextPrimary]_vars

\* C24: for a non-empty score mapping _get_primary_category returns a
\* confidence in [0,1] that is the top score when the top score is 0 or
\* there is one category, and min(top + (top - second), 1) otherwise; the
\* category is a highest-scoring one if confidence >= threshold and
\* 'unclassified', with the same confidence, if it is below.  So the
\* category is a key of the mapping or 'unclassified', and a category other
\* than 'unclassified' comes with a confidence >= threshold.
C24_PrimaryCategory ==
    (primary_out # <<>> /\ DOMAIN primary_in[1] # {}) =>
        LET scores     == primary_in[1]
            category   == primary_out[1][1]
            confidence == primary_out[1][2]
            top_key    == CHOOSE k \in DOMAIN scores :
                              \A j \in DOMAIN scores : FracLeq(scores[j], scores[k])
            top        == scores[top_key]
            \* the second entry of the scores sorted in descending order
            second_key == CHOOSE k \in DOMAIN scores \ {top_key} :
                              \A j \in DOMAIN scores \ {top_key} : FracLeq(scores[j], scores[k])
            expected   == IF Cardinality(DOMAIN scores) = 1 \/ FracEq(top, <<0, 1>>)
                          THEN top
                          ELSE FracMin(FracAdd(top, FracSub(top, scores[second_key])), <<1, 1>>)
        IN  /\ FracLeq(<<0, 1>>, confidence) /\ FracLeq(confidence, <<1, 1>>)
            /\ FracEq(confidence, expected)
            /\ IF FracLeq(confidence_threshold, confidence)
               THEN category \in DOMAIN scores /\ FracEq(scores[category], top)
               ELSE category = "unclassified"
            /\ category \in DOMAIN scores \cup {"unclassified"}
            /\ category # "unclassified" => FracLeq(confidence_threshold, confidence)

\* a mapping whose confidence is positive and below the threshold has been
\* given 'unclassified' with that confidence
C24_UnclassifiedKeepsConfidence ==
    /\ primary_out # <<>>
    /\ Cardinality(DOMAIN primary_in[1]) >= 2
    /\ primary_out[1][1] = "unclassified"
    /\ FracLess(<<0, 1>>, primary_out[1][2])

(***************************************************************************)
(* models/review.py: Review and ReviewBatch                                *)
(*                                                                         *)
(* A Review is a record of its fields.  Optional strings are strings, with *)
(* NoneStr for None; rating is a value of an untyped field; a dictionary   *)
(* is the set of its <<key, value>> pairs, the values of raw_data being    *)
(* [str |-> s] or [datetime |-> s] (a datetime object whose str() is s).   *)
(***************************************************************************)
NoneStr == "<None>"

\* datetime.utcnow().isoformat()
current_time == "now"

\* isinstance(rating, int) and 1 <= rating <= 5.  Of the numbers in tenths
\* the whole ones are ints, the others floats.
IsRatingInt(v) ==
    \/ IsInt(v) /\ v.int \in 1..5
    \/ IsNumber(v) /\ v.tenths \in {10, 20, 30, 40, 50}

\* Review.__post_init__ on the field values of `data`: the Review, or the
\* exception raised
Review(data) ==
    IF data.review_id = "" \/ data.review_id = NoneStr THEN [raises |-> "ValueError"]
    ELSE IF data.platform = "" \/ data.platform = NoneStr THEN [raises |-> "ValueError"]
    ELSE IF data.app_name = "" \/ data.app_name = NoneStr THEN [raises |-> "ValueError"]
    ELSE IF ~IsNone(data.rating) /\ ~IsRatingInt(data.rating)
         THEN [raises |-> "ValueError"]
    ELSE IF data.sentiment \notin {NoneStr, "positive", "negative", "neutral"}
         THEN [raises |-> "ValueError"]
    ELSE [data EXCEPT !.scraped_at = IF @ \in {"", NoneStr} THEN current_time ELSE @]

\* the fields of the dataclass Review
known_fields ==
    { "review_id", "platform", "app_name", "content", "title", "rating",
      "user_id", "verified", "review_date", "scraped_at", "processed_at",
      "helpful_count", "reply_count", "primary_category", "category_scores",
      "classification_confidence", "sentiment", "sentiment_score",
      "keywords_found", "is_duplicate", "is_spam", "quality_score", "raw_data" }

\* the default values of the fields of Review
field_defaults ==
    [title |-> NoneText, rating |-> PyNone, user_id |-> NoneStr,
     verified |-> FALSE, review_date |-> PyNone, scraped_at |-> NoneStr,
     processed_at |-> NoneStr, helpful_count |-> [tenths |-> 0],
     reply_count |-> [tenths |-> 0], primary_category |-> NoneStr,
     category_scores |-> <<>>, classification_confidence |-> <<0, 1>>,
     sentiment |-> NoneStr, sentiment_score |-> <<0, 1>>, keywords_found |-> <<>>,
     is_duplicate |-> FALSE, is_spam |-> FALSE, quality_score |-> <<0, 1>>,
     raw_data |-> {}]

\* Review.from_dict: the known fields of `data` are handed to the
\* constructor, which raises TypeError when a required field is missing
from_dict(data) ==
    IF ~({"review_id", "platform", "app_name", "content"} \subseteq DOMAIN data)
    THEN [raises |-> "TypeError"]
    ELSE Review([f \in DOMAIN data \cap known_fields |-> data[f]] @@ field_defaults)

\* Review.to_dict: the dictionary of the fields
to_dict(r) == [f \in known_fields |-> r[f]]

\* Review.update_processing_results(sentiment=...): a sentiment of None
\* leaves the field as it is; processed_at is always set
update_processing_results(r, sentiment_arg) ==
    [r EXCEPT !.sentiment = IF sentiment_arg = NoneStr THEN @ ELSE sentiment_arg,
              !.processed_at = current_time]

\* ReviewBatch(...) with ReviewBatch.__post_init__
ReviewBatch(rs, app, plat, at, scraped, processed, stats) ==
    [reviews |-> rs, app_name |-> app, platform |-> plat, scraped_at |-> at,
     total_scraped |-> IF scraped = 0 THEN Len(rs) ELSE scraped,
     total_processed |-> processed, processing_stats |-> stats]

\* ReviewBatch.add_review
add_review(b, r) ==
    [b EXCEPT !.reviews = Append(@, r), !.total_scraped = Len(b.reviews) + 1]

\* Review.is_processed
is_processed(r) == r.processed_at # NoneStr

\* ReviewBatch.get_processed_reviews
get_processed_reviews(b) == SelectSeq(b.reviews, is_processed)

\* ReviewBatch.get_stats: the counts of the batch and the distributions of
\* category and sentiment over the processed reviews (dictionaries of counts)
get_stats(b) ==
    LET processed_reviews == get_processed_reviews(b)
        category(r)  == IF r.primary_category \in {NoneStr, ""} THEN "unclassified"
                        ELSE r.primary_category
        sentiment(r) == IF r.sentiment \in {NoneStr, ""} THEN "neutral" ELSE r.sentiment
        counts(label(_)) ==
            { <<l, Cardinality({ i \in DOMAIN processed_reviews : label(processed_reviews[i]) = l })>> :
                l \in { label(processed_reviews[i]) : i \in DOMAIN processed_reviews } }
    IN  [total_reviews         |-> Len(b.reviews),
         processed_reviews     |-> Len(processed_reviews),
         category_distribution |-> counts(category),
         sentiment_distribution |-> counts(sentiment)]

\* json.dump(..., default=str) followed by json.load on one value of a
\* dictionary: a datetime is written as the string str(value)
json_value(v) == IF DOMAIN v = {"datetime"} THEN [str |-> v.datetime] ELSE v

\* the same on a dictionary
json_dict(d) == { <<kv[1], json_value(kv[2])>> : kv \in d }

\* the document written by ReviewBatch.save_to_json, as json.load reads it
save_to_json(b) ==
    [metadata |-> [app_name |-> b.app_name, platform |-> b.platform,
                   scraped_at |-> b.scraped_at, total_scraped |-> b.total_scraped,
                   total_processed |-> b.total_processed,
                   processing_stats |-> b.processing_stats],
     reviews |-> [i \in DOMAIN b.reviews |->
                     [to_dict(b.reviews[i]) EXCEPT !.raw_data = json_dict(@)]]]

\* ReviewBatch.load_from_json: the batch, or the exception raised by
\* Review.from_dict on one of the records
load_from_json(doc) ==
    LET made == [i \in DOMAIN doc.reviews |-> from_dict(doc.reviews[i])]
    IN  IF \E i \in DOMAIN made : Raises(made[i])
        THEN made[SetMin({ i \in DOMAIN made : Raises(made[i]) })]
        ELSE ReviewBatch(made, doc.metadata.app_name, doc.metadata.platform,
                         doc.metadata.scraped_at, doc.metadata.total_scraped,
                         doc.metadata.total_processed, doc.metadata.processing_stats)

(***************************************************************************)
(* SpecBatch: a ReviewBatch is built with add_review, its reviews are      *)
(* updated, and it is saved to a JSON file and loaded again                *)
(***************************************************************************)
MaxBatchReviews == 2   \* a ReviewBatch holds at most MaxBatchReviews reviews

ReviewDict(id, plat, r, s, raw) ==
    [review_id |-> id, platform |-> plat, app_name |-> "TestApp",
     content |-> <<"G","r","e","a","t"," ","a","p","p">>, rating |-> r,
     sentiment |-> s, raw_data |-> raw]

\* the dictionaries handed to Review.from_dict
ReviewDicts ==
    { ReviewDict("1", "playstore", [tenths |-> 50], NoneStr, {}),
      ReviewDict("2", "playstore", PyNone, "positive", {}),
      \* raw Play Store data holds the datetime of the review
      ReviewDict("3", "playstore", [tenths |-> 40], NoneStr,
                 {<<"at", [datetime |-> "2024-01-15 10:30:00"]>>}),
      ReviewDict("4", "reddit", PyNone, NoneStr,
                 {<<"subreddit", [str |-> "apps"]>>}),
      \* records the constructor rejects
      ReviewDict("", "playstore", [tenths |-> 50], NoneStr, {}),
      ReviewDict("5", "", PyNone, NoneStr, {}),
      ReviewDict("6", "playstore", [tenths |-> 0], NoneStr, {}),
      ReviewDict("7", "playstore", [tenths |-> 45], NoneStr, {}),
      ReviewDict("8", "playstore", PyNone, "mixed", {}) }

\* the sentiment arguments of update_processing_results
SentimentArgs == { NoneStr, "positive", "negative", "neutral", "mixed" }

InitBatch ==
    /\ \E scraped \in {0, 3}, stats \in { {}, {<<"final_count", 1>>} } :
          review_batch = ReviewBatch(<<>>, "TestApp", "playstore", current_time,
                                     scraped, 0, stats)
    /\ json_file = <<>>
    /\ loaded_batch = <<>>
    /\ IdleText
    /\ IdleRating
    /\ IdleClean
    /\ IdleDedup
    /\ IdleSim
    /\ IdleClassify
    /\ IdleClassifyReview
    /\ IdleReport
    /\ IdlePipeline
    /\ IdlePrimary
    /\ IdleFrame
    /\ IdleQuality
    /\ IdleRequest

\* review = Review.from_dict(data); batch.add_review(review).  A record
\* the constructor rejects is not added.
AddReview ==
    /\ json_file = <<>>
    /\ Len(review_batch.reviews) < MaxBatchReviews
    /\ \E data \in ReviewDicts :
          LET r == from_dict(data)
          IN  review_batch' = IF Raises(r) THEN review_batch
                              ELSE add_review(review_batch, r)
    /\ UNCHANGED <<json_file, loaded_batch, textVars, ratingVars, cleanVars,
                   dedupVars, simVars, classVars, reviewVars, reportVars, pipeVars, primaryVars, frameVars, qualityVars, requestVars>>

\* batch.reviews[i].update_processing_results(sentiment=s)
UpdateProcessingResults ==
    /\ json_file = <<>>
    /\ \E i \in DOMAIN review_batch.reviews, s \in SentimentArgs :
          review_batch' = [review_batch EXCEPT
                              !.reviews[i] = update_processing_results(@, s)]
    /\ UNCHANGED <<json_file, loaded_batch, textVars, ratingVars, cleanVars,
                   dedupVars, simVars, classVars, reviewVars, reportVars, pipeVars, primaryVars, frameVars, qualityVars, requestVars>>

\* batch.save_to_json(filepath)
SaveToJson ==
    /\ json_file = <<>>
    /\ json_file' = <<save_to_json(review_batch)>>
    /\ UNCHANGED <<review_batch, loaded_batch, textVars, ratingVars, cleanVars,
                   dedupVars, simVars, classVars, reviewVars, reportVars, pipeVars, primaryVars, frameVars, qualityVars, requestVars>>

\* ReviewBatch.load_from_json(filepath)
LoadFromJson ==
    /\ json_file # <<>>
    /\ loaded_batch = <<>>
    /\ loaded_batch' = <<load_from_json(json_file[1])>>
    /\ UNCHANGED <<review_batch, json_file, textVars, ratingVars, cleanVars,
                   dedupVars, simVars, classVars, reviewVars, reportVars, pipeVars, primaryVars, frameVars, qualityVars, requestVars>>

NextBatch ==
    \/ AddReview
    \/ UpdateProcessingResults
    \/ SaveToJson
    \/ LoadFromJson

SpecBatch == InitBatch /\ [][NextBatch]_vars

\* C13: the batch loaded from the file a batch was saved to has the same
\* app_name, platform, scraped_at, total_scraped, total_processed and
\* processing_stats and the same records, field for field.
C13_SaveLoadRoundTrip ==
    loaded_batch # <<>> =>
        /\ ~Raises(loaded_batch[1])
        /\ loaded_batch[1] = review_batch

\* C17: every Review of the batch has a sentiment that is None or one of
\* 'positive', 'negative', 'neutral', a rating that is None or an integer
\* in 1..5, and non-empty review_id, platform and app_name.
C17_ReviewInvariants ==
    \A i \in DOMAIN review_batch.reviews :
        LET r == review_batch.reviews[i]
        IN  /\ r.sentiment \in {NoneStr, "positive", "negative", "neutral"}
            /\ IsNone(r.rating) \/ IsRatingInt(r.rating)
            /\ r.review_id \notin {"", NoneStr}
            /\ r.platform \notin {"", NoneStr}
            /\ r.app_name \notin {"", NoneStr}

(***************************************************************************)
(* utils/export.py: the aggregations of ReportGenerator.  A dictionary is  *)
(* the set of its <<key, value>> pairs, a float a fraction <<num, den>>.   *)
(***************************************************************************)
\* Review.is_high_quality with min_quality_score = 0.5
is_high_quality(r) ==
    /\ ~r.is_spam
    /\ ~r.is_duplicate
    /\ FracLeq(<<1, 2>>, r.quality_score)
    /\ Len(r.content) >= 20

\* all reviews of all batches, batch after batch
RECURSIVE all_reviews(_)
all_reviews(bs) ==
    IF bs = <<>> THEN <<>>
    ELSE all_reviews(Take(bs, Len(bs) - 1)) \o bs[Len(bs)].reviews

\* sum(scores) of a list of floats
RECURSIVE FracSum(_)
FracSum(xs) ==
    IF xs = <<>> THEN <<0, 1>>
    ELSE FracAdd(FracSum(Take(xs, Len(xs) - 1)), xs[Len(xs)])

\* sum(ints) of a list of ints
RECURSIVE IntSum(_)
IntSum(xs) ==
    IF xs = <<>> THEN 0 ELSE IntSum(Take(xs, Len(xs) - 1)) + xs[Len(xs)]

\* `if review.rating`: the rating is neither None nor 0
HasRating(r) == IsInt(r.rating) /\ r.rating.int # 0

\* the ratings appended by `if review.rating: ....append(review.rating)`
ratings_of(rs) ==
    LET rated == SelectSeq(rs, HasRating)
    IN  [i \in DOMAIN rated |-> rated[i].rating.int]

sentiment_scores_of(rs) == [i \in DOMAIN rs |-> rs[i].sentiment_score]

\* sum(xs) / len(xs), or the ZeroDivisionError of an empty list
average(xs) ==
    IF xs = <<>> THEN [raises |-> "ZeroDivisionError"]
    ELSE LET total == FracSum(xs) IN <<total[1], total[2] * Len(xs)>>

\* ReportGenerator._calculate_overall_stats
_calculate_overall_stats(bs) ==
    LET rs                   == all_reviews(bs)
        total_reviews        == Len(rs)
        total_high_quality   == Len(SelectSeq(rs, is_high_quality))
        all_ratings          == ratings_of(rs)
        all_sentiment_scores == sentiment_scores_of(rs)
    IN  [total_reviews |-> total_reviews,
         total_high_quality_reviews |-> total_high_quality,
         total_apps |-> Cardinality({ bs[b].app_name : b \in DOMAIN bs }),
         total_platforms |-> Cardinality({ bs[b].platform : b \in DOMAIN bs }),
         average_rating |-> IF all_ratings # <<>>
                            THEN <<IntSum(all_ratings), Len(all_ratings)>> ELSE <<0, 1>>,
         average_sentiment_score |-> IF all_sentiment_scores # <<>>
                                     THEN average(all_sentiment_scores) ELSE <<0, 1>>,
         quality_rate |-> IF total_reviews > 0
                          THEN <<total_high_quality, total_reviews>> ELSE <<0, 1>>]

\* ReportGenerator._analyze_categories
_analyze_categories(bs) ==
    LET rs         == all_reviews(bs)
        Counted(r) == r.primary_category \notin {NoneStr, "", "unclassified"}
        categories == { rs[i].primary_category : i \in { k \in DOMAIN rs : Counted(rs[k]) } }
        of(c)      == SelectSeq(rs, LAMBDA r : r.primary_category = c)
    IN  { <<c, [count |-> Len(of(c)),
                average_sentiment |-> average(sentiment_scores_of(of(c))),
                average_rating |-> IF ratings_of(of(c)) # <<>>
                                   THEN <<IntSum(ratings_of(of(c))), Len(ratings_of(of(c)))>>
                                   ELSE <<0, 1>>]>> : c \in categories }

\* ReportGenerator._analyze_sentiment_trends: the lists of scores are made
\* for every platform and app of a batch, with or without reviews, and
\* every list is averaged without a test for emptiness
_analyze_sentiment_trends(bs) ==
    LET platforms   == { bs[b].platform : b \in DOMAIN bs }
        apps        == { bs[b].app_name : b \in DOMAIN bs }
        platform_sentiment(p) ==
            sentiment_scores_of(all_reviews(SelectSeq(bs, LAMBDA b : b.platform = p)))
        app_sentiment(a) ==
            sentiment_scores_of(all_reviews(SelectSeq(bs, LAMBDA b : b.app_name = a)))
    IN  IF \/ \E p \in platforms : platform_sentiment(p) = <<>>
           \/ \E a \in apps : app_sentiment(a) = <<>>
        THEN [raises |-> "ZeroDivisionError"]
        ELSE [platform_sentiment_averages |->
                  { <<p, average(platform_sentiment(p))>> : p \in platforms },
              app_sentiment_averages |->
                  { <<a, average(app_sentiment(a))>> : a \in apps }]

\* ReportGenerator._analyze_quality_metrics
_analyze_quality_metrics(bs) ==
    LET rs                 == all_reviews(bs)
        total_reviews      == Len(rs)
        spam_count_        == Len(SelectSeq(rs, LAMBDA r : r.is_spam))
        duplicate_count    == Len(SelectSeq(rs, LAMBDA r : r.is_duplicate))
        high_quality_count == Len(SelectSeq(rs, is_high_quality))
        rate(n)            == IF total_reviews > 0 THEN <<n, total_reviews>> ELSE <<0, 1>>
    IN  [total_reviews |-> total_reviews, spam_count |-> spam_count_,
         duplicate_count |-> duplicate_count, high_quality_count |-> high_quality_count,
         spam_rate |-> rate(spam_count_), duplicate_rate |-> rate(duplicate_count),
         quality_rate |-> rate(high_quality_count)]

(***************************************************************************)
(* SpecReport: the four aggregations are called on a list of batches       *)
(***************************************************************************)
MaxReportBatches == 2   \* the report is made of at most MaxReportBatches batches

ProcessedReview(id, c, cat, sent, r, quality, spam) ==
    [review_id |-> id, content |-> c, primary_category |-> cat,
     sentiment_score |-> sent, rating |-> r, quality_score |-> quality,
     is_spam |-> spam, is_duplicate |-> FALSE]

ReportReviews ==
    { ProcessedReview("1", <<"T","h","e"," ","i","n","t","e","r","f","a","c","e"," ","i","s"," ","c","o","n","f","u","s","i","n","g">>, "ux_ui", <<-1, 1>>, [int |-> 2], <<9, 10>>, FALSE),
      ProcessedReview("2", <<"G","r","e","a","t"," ","a","p","p">>, "unclassified", <<1, 2>>, PyNone, <<0, 1>>, FALSE),
      ProcessedReview("3", <<"B","u","y"," ","n","o","w",","," ","i","t"," ","i","s"," ","w","o","r","t","h"," ","t","h","e"," ","p","r","i","c","e">>, "pricing", <<0, 1>>, [int |-> 5], <<1, 2>>, TRUE) }

\* the batches of the report: processed batches of zero, one or two reviews
ReportBatches ==
    { ReviewBatch(rs, app, plat, current_time, 0, Len(rs), {}) :
        rs \in SeqsUpTo(ReportReviews, 2) \ { <<x, x>> : x \in ReportReviews },
        app \in {"spotify"}, plat \in {"reddit", "playstore"} }

ReportFunctions ==
    { "_calculate_overall_stats", "_analyze_categories",
      "_analyze_sentiment_trends", "_analyze_quality_metrics" }

Called(fn) == \E call \in report_out : call[1] = fn

InitReport ==
    /\ report_batches \in SeqsUpTo(ReportBatches, MaxReportBatches)
    /\ report_out = {}
    /\ IdleText
    /\ IdleRating
    /\ IdleClean
    /\ IdleDedup
    /\ IdleSim
    /\ IdleClassify
    /\ IdleClassifyReview
    /\ IdleBatch
    /\ IdlePipeline
    /\ IdlePrimary
    /\ IdleFrame
    /\ IdleQuality
    /\ IdleRequest

CalculateOverallStats ==
    /\ ~Called("_calculate_overall_stats")
    /\ report_out' = report_out \cup
          { <<"_calculate_overall_stats", _calculate_overall_stats(report_batches)>> }
    /\ UNCHANGED <<report_batches, textVars, ratingVars, cleanVars, dedupVars,
                   simVars, classVars, reviewVars, batchVars, pipeVars, primaryVars, frameVars, qualityVars, requestVars>>

AnalyzeCategories ==
    /\ ~Called("_analyze_categories")
    /\ report_out' = report_out \cup
          { <<"_analyze_categories", [categories |-> _analyze_categories(report_batches)]>> }
    /\ UNCHANGED <<report_batches, textVars, ratingVars, cleanVars, dedupVars,
                   simVars, classVars, reviewVars, batchVars, pipeVars, primaryVars, frameVars, qualityVars, requestVars>>

AnalyzeSentimentTrends ==
    /\ ~Called("_analyze_sentiment_trends")
    /\ report_out' = report_out \cup
          { <<"_analyze_sentiment_trends", _analyze_sentiment_trends(report_batches)>> }
    /\ UNCHANGED <<report_batches, textVars, ratingVars, cleanVars, dedupVars,
                   simVars, classVars, reviewVars, batchVars, pipeVars, primaryVars, frameVars, qualityVars, requestVars>>

AnalyzeQualityMetrics ==
    /\ ~Called("_analyze_quality_metrics")
    /\ report_out' = report_out \cup
          { <<"_analyze_quality_metrics", _analyze_quality_metrics(report_batches)>> }
    /\ UNCHANGED <<report_batches, textVars, ratingVars, cleanVars, dedupVars,
                   simVars, classVars, reviewVars, batchVars, pipeVars, primaryVars, frameVars, qualityVars, requestVars>>

NextReport ==
    \/ CalculateOverallStats
    \/ AnalyzeCategories
    \/ AnalyzeSentimentTrends
    \/ AnalyzeQualityMetrics

SpecReport == InitReport /\ [][NextReport]_vars

\* C16: on every list of batches, batches without reviews included, none of
\* _calculate_overall_stats, _analyze_categories, _analyze_sentiment_trends
\* and _analyze_quality_metrics raises.
C16_ReportAggregationTotal ==
    \A call \in report_out : ~Raises(call[2])

(***************************************************************************)
(* main.py: ReviewMiner.  A list returned by a call is [list |-> s].       *)
(***************************************************************************)
\* config/apps.py: the keys of the configuration of every app of
\* TARGET_APPS (two of the nine apps)
TARGET_APPS ==
    { <<"spotify", {"name", "package_id", "category", "platforms", "keywords", "competitors"}>>,
      <<"slack", {"name", "url", "category", "keywords", "competitors"}>> }

\* get_app_config: the keys of the configuration, none for an unknown app
get_app_config(app_name) ==
    IF \E app \in TARGET_APPS : app[1] = app_name
    THEN (CHOOSE app \in TARGET_APPS : app[1] = app_name)[2]
    ELSE {}

\* self.scrapers
scrapers == { "reddit" }

\* RedditScraper.validate_config
validate_config(app_config) == {"name", "keywords"} \subseteq app_config

\* a variant of reviews_from_dicts that stops at the first dictionary the
\* constructor rejects
RECURSIVE reviews_from_dicts_until_error(_)
reviews_from_dicts_until_error(review_dicts) ==
    IF review_dicts = <<>> THEN <<>>
    ELSE IF Raises(from_dict(review_dicts[1])) THEN <<>>
    ELSE <<from_dict(review_dicts[1])>> \o reviews_from_dicts_until_error(Drop(review_dicts, 1))

\* the Review objects made of the scraped dictionaries; a dictionary that
\* Review.from_dict rejects is logged and left out
reviews_from_dicts(review_dicts) ==
    LET made == [i \in DOMAIN review_dicts |-> from_dict(review_dicts[i])]
    IN  SelectSeq(made, LAMBDA r : ~Raises(r))

\* ReviewMiner.scrape_app_reviews.  `scraped` is what scraper.scrape_reviews
\* does on every call: [list |-> dictionaries] or [raises |-> e].
RECURSIVE scrape_platforms(_, _, _)
scrape_platforms(app_name, platforms, scraped) ==
    IF platforms = <<>> THEN <<>>
    ELSE LET earlier  == scrape_platforms(app_name, Take(platforms, Len(platforms) - 1), scraped)
             platform == platforms[Len(platforms)]
         IN  IF platform \notin scrapers THEN earlier
             ELSE IF ~validate_config(get_app_config(app_name)) THEN earlier
             ELSE IF Raises(scraped) THEN earlier
             ELSE IF scraped.list = <<>> THEN earlier
             ELSE Append(earlier, ReviewBatch(reviews_from_dicts(scraped.list), app_name,
                                              platform, current_time, 0, 0, {}))

scrape_app_reviews(app_name, platforms, scraped) ==
    IF get_app_config(app_name) = {} THEN <<>>
    ELSE scrape_platforms(app_name, platforms, scraped)

\* DataCleaner.clean_reviews
RECURSIVE clean_reviews(_)
clean_reviews(rs) ==
    IF rs = <<>> THEN <<>>
    ELSE clean_reviews(Take(rs, Len(rs) - 1)) \o clean_review(rs[Len(rs)])

\* the cleaned dictionaries as deduplicate_reviews reads them: the count
\* [int |-> k] is the int k
dedup_input(rs) == [i \in DOMAIN rs |-> [rs[i] EXCEPT !.helpful_count = @.int]]

\* Deduplicator._remove_similarity_duplicates
RECURSIVE _remove_similarity_duplicates(_)
_remove_similarity_duplicates(rs) ==
    IF rs = <<>> THEN <<>>
    ELSE similarity_step(_remove_similarity_duplicates(Take(rs, Len(rs) - 1)), rs[Len(rs)])

\* a user_id that is a list: hash() of it raises TypeError
UnhashableUser == "['u1']"

\* Pass 4 of deduplicate_reviews: _remove_user_duplicates uses
\* (user_id, app_name) as a dictionary key, which raises TypeError when the
\* user_id is not hashable
remove_user_duplicates_call(rs) ==
    IF \E i \in DOMAIN rs : rs[i].user_id = UnhashableUser
    THEN [raises |-> "TypeError"]
    ELSE [list |-> _remove_user_duplicates(rs)]

\* Deduplicator.deduplicate_reviews
deduplicate_reviews(rs) ==
    IF rs = <<>> THEN [list |-> <<>>]
    ELSE remove_user_duplicates_call(
             _remove_spam_reviews(
                 _remove_similarity_duplicates(
                     _remove_hash_duplicates(rs))))

\* ReviewClassifier.classify_reviews
classify_reviews(rs) == [i \in DOMAIN rs |-> classify_review(rs[i])]

\* ReviewMiner.export_results with the formats ['csv', 'json', 'report']:
\* the number of files of every format.  An exception (of the report) ends
\* the export with the formats written so far.
export_results(bs) ==
    LET csv_files  == Len(SelectSeq(bs, LAMBDA b : b.reviews # <<>>))
        json_files == Len(bs)
    IN  { <<"csv", csv_files>>, <<"json", json_files>> }
          \cup IF Raises(_analyze_sentiment_trends(bs)) THEN {} ELSE { <<"report", 3>> }

\* sum(batch.total_scraped ...), sum(batch.total_processed ...)
RECURSIVE total_of(_, _)
total_of(bs, field) ==
    IF bs = <<>> THEN 0 ELSE total_of(Take(bs, Len(bs) - 1), field) + bs[Len(bs)][field]

(***************************************************************************)
(* SpecPipeline: run_full_pipeline on one app                              *)
(***************************************************************************)
MaxScraped == 2   \* the scraper returns at most MaxScraped dictionaries

\* a dictionary written by BaseScraper._create_review_dict
ScrapedDict(id, user, c, r) ==
    [review_id |-> id, platform |-> "reddit", app_name |-> "spotify",
     user_id |-> user, title |-> NoneText, content |-> c, rating |-> r,
     review_date |-> PyNone, helpful_count |-> [tenths |-> 0],
     reply_count |-> [tenths |-> 0], verified |-> FALSE, scraped_at |-> current_time]

ScrapedDicts ==
    { ScrapedDict("r1", "u1", <<"s","l","o","w"," ","o","n"," ","t","h","e"," ","u","i">>, PyNone),
      ScrapedDict("r2", "u2", <<"g","o","o","d"," ","f","o","r"," ","t","h","e"," ","p","r","i","c","e">>, [tenths |-> 50]),
      \* dropped by the cleaner
      ScrapedDict("r3", "u3", <<"B","a","d">>, PyNone),
      \* malformed: rejected by Review.from_dict
      ScrapedDict("", "u4", <<"I"," ","l","i","k","e"," ","i","t"," ","f","o","r"," ","t","h","e"," ","p","r","i","c","e">>, PyNone),
      ScrapedDict("r5", "u5", <<"i","t"," ","i","s"," ","i","n"," ","t","h","e"," ","w","a","y">>, [tenths |-> 0]),
      \* a user_id of an unexpected type
      ScrapedDict("r6", UnhashableUser, <<"e","a","s","y"," ","t","o"," ","u","s","e"," ","f","o","r"," ","m","e">>, PyNone) }

\* scraped dictionaries without a required field: no 'content' key, an empty
\* platform, an app_name that is None
MalformedDicts ==
    LET d == ScrapedDict("m1", "u7", <<"n","o","t"," ","f","o","r"," ","m","e">>, PyNone)
    IN  { [f \in (DOMAIN d) \ {"content"} |-> d[f]],
          [d EXCEPT !.review_id = "m2", !.platform = ""],
          [d EXCEPT !.review_id = "m3", !.app_name = NoneStr] }

PipelineInputs ==
    { [app_name |-> "spotify", platforms |-> p, scraped |-> [list |-> s]] :
        p \in { <<"reddit">>, <<"playstore", "reddit">>, <<"reddit", "reddit">> },
        s \in SeqsUpTo(ScrapedDicts, MaxScraped) }
      \cup { [app_name |-> "spotify", platforms |-> <<"reddit">>, scraped |-> [list |-> s]] :
              s \in SeqsUpTo(MalformedDicts \cup { d \in ScrapedDicts : d.review_id \in {"r1", "r2"} },
                             MaxScraped) }
      \cup { [app_name |-> "spotify", platforms |-> <<"reddit">>,
              scraped |-> [raises |-> "ZeroDivisionError"]],
             [app_name |-> "spotify", platforms |-> <<>>, scraped |-> [list |-> <<>>]],
             [app_name |-> "spotify", platforms |-> <<"playstore">>, scraped |-> [list |-> <<>>]],
             [app_name |-> "unknown", platforms |-> <<"reddit">>, scraped |-> [list |-> <<>>]] }

InitPipeline ==
    /\ pipe_in \in PipelineInputs
    /\ pipe_pc = "scrape"
    /\ review_batches = <<>>
    /\ processed_batches = <<>>
    /\ batch_next = 1
    /\ cleaned_dicts = <<>>
    /\ deduplicated_dicts = <<>>
    /\ classified_dicts = <<>>
    /\ pipeline_result = <<>>
    /\ IdleText
    /\ IdleRating
    /\ IdleClean
    /\ IdleDedup
    /\ IdleSim
    /\ IdleClassify
    /\ IdleClassifyReview
    /\ IdleBatch
    /\ IdleReport
    /\ IdlePrimary
    /\ IdleFrame
    /\ IdleQuality
    /\ IdleRequest

\* run_full_pipeline, step 1: scrape_app_reviews and the test of its result
ScrapeReviews ==
    /\ pipe_pc = "scrape"
    /\ review_batches' = scrape_app_reviews(pipe_in.app_name, pipe_in.platforms, pipe_in.scraped)
    /\ IF review_batches' = <<>>
       THEN /\ pipeline_result' = <<[success |-> FALSE, error |-> "No reviews scraped"]>>
            /\ pipe_pc' = "done"
       ELSE /\ pipeline_result' = pipeline_result
            /\ pipe_pc' = "clean"
    /\ UNCHANGED <<pipe_in, processed_batches, batch_next, cleaned_dicts,
                   deduplicated_dicts, classified_dicts, textVars, ratingVars, cleanVars,
                   dedupVars, simVars, classVars, reviewVars, batchVars, reportVars, primaryVars, frameVars, qualityVars, requestVars>>

\* process_review_batches, for the batch at batch_next:
\* review_dicts = [review.to_dict() ...]; cleaned_dicts = clean_reviews(..)
CleanBatch ==
    /\ pipe_pc = "clean"
    /\ batch_next <= Len(review_batches)
    /\ LET b == review_batches[batch_next]
       IN  cleaned_dicts' = clean_reviews([i \in DOMAIN b.reviews |-> to_dict(b.reviews[i])])
    /\ pipe_pc' = "deduplicate"
    /\ UNCHANGED <<pipe_in, review_batches, processed_batches, batch_next,
                   deduplicated_dicts, classified_dicts, pipeline_result, textVars,
                   ratingVars, cleanVars, dedupVars, simVars, classVars, reviewVars,
                   batchVars, reportVars, primaryVars, frameVars, qualityVars, requestVars>>

\* deduplicated_dicts = deduplicate_reviews(cleaned_dicts); an exception is
\* caught by the except clause of the loop, which goes on with the next
\* batch
DeduplicateBatch ==
    /\ pipe_pc = "deduplicate"
    /\ LET returned == deduplicate_reviews(dedup_input(cleaned_dicts))
       IN  IF Raises(returned)
           THEN /\ batch_next' = batch_next + 1
                /\ pipe_pc' = "clean"
                /\ UNCHANGED deduplicated_dicts
           ELSE /\ deduplicated_dicts' = returned.list
                /\ pipe_pc' = "classify"
                /\ UNCHANGED batch_next
    /\ UNCHANGED <<pipe_in, review_batches, processed_batches, cleaned_dicts,
                   classified_dicts, pipeline_result, textVars, ratingVars, cleanVars,
                   dedupVars, simVars, classVars, reviewVars, batchVars, reportVars, primaryVars, frameVars, qualityVars, requestVars>>

\* classified_dicts = classify_reviews(deduplicated_dicts)
ClassifyBatch ==
    /\ pipe_pc = "classify"
    /\ classified_dicts' = classify_reviews(deduplicated_dicts)
    /\ pipe_pc' = "rebuild"
    /\ UNCHANGED <<pipe_in, review_batches, processed_batches, batch_next, cleaned_dicts,
                   deduplicated_dicts, pipeline_result, textVars, ratingVars, cleanVars,
                   dedupVars, simVars, classVars, reviewVars, batchVars, reportVars, primaryVars, frameVars, qualityVars, requestVars>>

\* the Review objects are made again and the processed batch is appended
RebuildBatch ==
    /\ pipe_pc = "rebuild"
    /\ LET b                 == review_batches[batch_next]
           processed_reviews == reviews_from_dicts(classified_dicts)
           processed_batch   == ReviewBatch(processed_reviews, b.app_name, b.platform,
                                            b.scraped_at, b.total_scraped, 0, {})
       IN  processed_batches' = Append(processed_batches,
              [processed_batch EXCEPT
                 !.total_processed = Len(processed_reviews),
                 !.processing_stats =
                     { <<"original_count", Len(b.reviews)>>,
                       <<"cleaned_count", Len(cleaned_dicts)>>,
                       <<"deduplicated_count", Len(deduplicated_dicts)>>,
                       <<"classified_count", Len(classified_dicts)>>,
                       <<"final_count", Len(processed_reviews)>> }])
    /\ batch_next' = batch_next + 1
    /\ pipe_pc' = "clean"
    /\ UNCHANGED <<pipe_in, review_batches, cleaned_dicts, deduplicated_dicts,
                   classified_dicts, pipeline_result, textVars, ratingVars, cleanVars,
                   dedupVars, simVars, classVars, reviewVars, batchVars, reportVars, primaryVars, frameVars, qualityVars, requestVars>>

\* process_review_batches returns; run_full_pipeline tests its result
ProcessedBatchesReturned ==
    /\ pipe_pc = "clean"
    /\ batch_next > Len(review_batches)
    /\ IF processed_batches = <<>>
       THEN /\ pipeline_result' = <<[success |-> FALSE, error |-> "No reviews processed"]>>
            /\ pipe_pc' = "done"
       ELSE /\ pipeline_result' = pipeline_result
            /\ pipe_pc' = "export"
    /\ UNCHANGED <<pipe_in, review_batches, processed_batches, batch_next, cleaned_dicts,
                   deduplicated_dicts, classified_dicts, textVars, ratingVars, cleanVars,
                   dedupVars, simVars, classVars, reviewVars, batchVars, reportVars, primaryVars, frameVars, qualityVars, requestVars>>

\* run_full_pipeline, step 3, and the summary it returns
ExportResults ==
    /\ pipe_pc = "export"
    /\ pipeline_result' =
          <<[success |-> TRUE, app_name |-> pipe_in.app_name,
             platforms |-> pipe_in.platforms,
             total_reviews_scraped |-> total_of(processed_batches, "total_scraped"),
             total_reviews_processed |-> total_of(processed_batches, "total_processed"),
             processing_rate |->
                 IF total_of(processed_batches, "total_scraped") > 0
                 THEN <<total_of(processed_batches, "total_processed"),
                        total_of(processed_batches, "total_scraped")>>
                 ELSE <<0, 1>>,
             batches_created |-> Len(processed_batches),
             exported_files |-> export_results(processed_batches)]>>
    /\ pipe_pc' = "done"
    /\ UNCHANGED <<pipe_in, review_batches, processed_batches, batch_next, cleaned_dicts,
                   deduplicated_dicts, classified_dicts, textVars, ratingVars, cleanVars,
                   dedupVars, simVars, classVars, reviewVars, batchVars, reportVars, primaryVars, frameVars, qualityVars, requestVars>>

\* C26: after process_review_batches the statistics of every returned
\* batch count its records as processed: get_stats()['processed_reviews']
\* equals len(batch.reviews) and batch.total_processed, and the counts of
\* category_distribution and of sentiment_distribution each sum to it.
C26_StatsCountProcessed ==
    pipe_pc \in {"export", "done"} =>
        \A b \in DOMAIN processed_batches :
            LET batch == processed_batches[b]
                stats == get_stats(batch)
                RECURSIVE total(_)
                total(dist) == IF dist = {} THEN 0
                               ELSE LET kv == CHOOSE kv \in dist : TRUE
                                    IN  kv[2] + total(dist \ {kv})
            IN  /\ stats.processed_reviews = Len(batch.reviews)
                /\ stats.processed_reviews = batch.total_processed
                /\ total(stats.category_distribution) = stats.processed_reviews
                /\ total(stats.sentiment_distribution) = stats.processed_reviews

NextPipeline ==
    \/ ScrapeReviews
    \/ CleanBatch
    \/ DeduplicateBatch
    \/ ClassifyBatch
    \/ RebuildBatch
    \/ ProcessedBatchesReturned
    \/ ExportResults

SpecPipeline == InitPipeline /\ [][NextPipeline]_vars

\* no record survived scraping: there is no batch, or no batch has a review
NoRecordScraped == \A b \in DOMAIN review_batches : review_batches[b].reviews = <<>>

\* C14: when no record survives scraping or no batch survives processing,
\* run_full_pipeline returns success == False and a non-empty error.
C14_BatchFailureReported ==
    (pipeline_result # <<>> /\ (NoRecordScraped \/ processed_batches = <<>>))
        => /\ pipeline_result[1].success = FALSE
           /\ pipeline_result[1].error # ""

\* C15: every batch handed to process_review_batches is in the list it
\* returns, whatever the field types of its records.
C15_BadRecordKeepsBatch ==
    pipe_pc \in {"export", "done"} /\ review_batches # <<>>
        => /\ Len(processed_batches) = Len(review_batches)
           /\ \A b \in DOMAIN processed_batches :
                 processed_batches[b].platform = review_batches[b].platform

\* the required fields of Review are in the dictionary and the three
\* identifiers are not empty
HasRequiredFields(d) ==
    /\ {"review_id", "platform", "app_name", "content"} \subseteq DOMAIN d
    /\ d.review_id \notin {"", NoneStr}
    /\ d.platform \notin {"", NoneStr}
    /\ d.app_name \notin {"", NoneStr}

\* C28: every Review of every batch returned by scrape_app_reviews has a
\* non-empty review_id, platform and app_name; a scraped dictionary without
\* one of them, or without content, is not in the batch, and the records
\* the constructor accepts are in the batch in the order they were scraped.
C28_MalformedDropped ==
    \A b \in DOMAIN review_batches :
        LET rs   == review_batches[b].reviews
            kept == SelectSeq(pipe_in.scraped.list,
                              LAMBDA d : /\ HasRequiredFields(d)
                                         /\ (IsNone(d.rating) \/ IsRatingInt(d.rating)))
        IN  /\ \A i \in DOMAIN rs : /\ rs[i].review_id \notin {"", NoneStr}
                                    /\ rs[i].platform \notin {"", NoneStr}
                                    /\ rs[i].app_name \notin {"", NoneStr}
            /\ Len(rs) = Len(kept)
            /\ \A i \in DOMAIN rs : /\ rs[i].review_id = kept[i].review_id
                                    /\ rs[i].content = kept[i].content

\* a batch made from a list in which a dictionary without a required field
\* comes before one that is kept
C28_KeptAfterMalformed ==
    /\ review_batches # <<>>
    /\ review_batches[1].reviews # <<>>
    /\ LET scraped == pipe_in.scraped.list
       IN  \E i, j \in DOMAIN scraped :
              /\ i < j
              /\ ~HasRequiredFields(scraped[i])
              /\ "content" \notin DOMAIN scraped[i]
              /\ scraped[j].review_id = review_batches[1].reviews[1].review_id

(***************************************************************************)
(* SpecQuality: the quality score of a record that was cleaned             *)
(***************************************************************************)
QualityPhrase == <<"T","h","i","s"," ","a","p","p"," ","w","o","r","k","s"," ","w","e","l","l"," ","f","o","r"," ","m","y"," ","d","a","i","l","y"," ","t","a","s","k","s">>

RECURSIVE Repeated(_, _)
Repeated(phrase, n) ==
    IF n = 1 THEN phrase ELSE Repeated(phrase, n - 1) \o <<" ">> \o phrase

\* contents of 38, 53 and 77 characters
QualityContents ==
    { QualityPhrase,
      QualityPhrase \o <<" ","a","n","d"," ","i","t"," ","i","s"," ","f","a","s","t">>,
      Repeated(QualityPhrase, 2) }

QualityCounts ==
    { PyNone, [tenths |-> -30], [tenths |-> 70], [tenths |-> 200], [tenths |-> 250],
      [str |-> <<"7">>], [nan |-> TRUE], [inf |-> 1] }

QualityDates ==
    { PyNone, [other |-> TRUE], [isolike |-> TRUE], [known |-> 100] }
      \cup { [iso |-> d] : d \in {-10, 0, 364, 365, 2000} }

QualityRecords ==
    { [RawReview("q", t, c, PyNone, h) EXCEPT !.review_date = d] @@ [verified |-> v] :
        t \in { NoneText, <<" ","T","i","t","l","e"," ">> }, c \in QualityContents,
        h \in QualityCounts, d \in QualityDates, v \in BOOLEAN }

InitQuality ==
    /\ quality_in \in { <<r>> : r \in QualityRecords }
    /\ quality_out = <<>>
    /\ IdleText
    /\ IdleRating
    /\ IdleClean
    /\ IdleDedup
    /\ IdleSim
    /\ IdleClassify
    /\ IdleClassifyReview
    /\ IdleBatch
    /\ IdleReport
    /\ IdlePipeline
    /\ IdlePrimary
    /\ IdleFrame
    /\ IdleRequest

\* the record is cleaned by clean_review and, when it is kept, scored by
\* _get_quality_score as in the passes of deduplicate_reviews
ScoreCleanedReview ==
    /\ quality_in # <<>>
    /\ quality_out = <<>>
    /\ LET cleaned_review == clean_review(quality_in[1])
       IN  quality_out' =
             IF cleaned_review = <<>> THEN << [dropped |-> TRUE] >>
             ELSE LET review == dedup_input(cleaned_review)[1]
                  IN  << [cleaned |-> review, score |-> _get_quality_score(review)] >>
    /\ UNCHANGED <<quality_in, textVars, ratingVars, cleanVars, dedupVars, simVars, classVars,
                   reviewVars, batchVars, reportVars, pipeVars, primaryVars, frameVars, requestVars>>

NextQuality == ScoreCleanedReview

SpecQuality == InitQuality /\ [][NextQuality]_vars

\* a fraction n/d as a number of units of 1/QualityUnit, which is exact
\* for the denominators 1, 2, 10, 200 and 365
InQualityUnits(f) == (f[1] * QualityUnit) \div f[2]

\* the terms of the sum the claim gives
QualityTerms(review) ==
    LET length == Len(review.content)
        date   == review.review_date
        parses == DOMAIN date = {"iso"}
    IN  << IF length > 50 THEN FracMin(<<length, 200>>, <<2, 1>>) ELSE <<0, 1>>,
           FracMin(<<review.helpful_count, 10>>, <<2, 1>>),
           IF review.verified THEN <<1, 1>> ELSE <<0, 1>>,
           IF review.title # <<>> THEN <<1, 2>> ELSE <<0, 1>>,
           IF parses /\ date.iso < 365 THEN <<365 - date.iso, 365>> ELSE <<0, 1>> >>

max_retries == 3

\* a variant of after_failed_attempt that sleeps after every failure
after_failed_attempt_always_sleep(n) == "backoff"

\* the except clause of the retry loop, for the failed attempt n
after_failed_attempt(n) == IF n < max_retries - 1 THEN "backoff" ELSE "return_none"

InitRequest ==
    /\ request_pc = "rate_limit"
    /\ get_outcomes \in [1..max_retries -> {"ok", "error"}]
    /\ clock \in {0, 1, 2, 5}
    /\ last_request_time = 0
    /\ delay \in {1, 2}
    /\ rate_limit_calls = 0
    /\ attempt = 0
    /\ get_attempts = 0
    /\ sleeps = <<>>
    /\ request_result = <<>>
    /\ IdleText
    /\ IdleRating
    /\ IdleClean
    /\ IdleDedup
    /\ IdleSim
    /\ IdleClassify
    /\ IdleClassifyReview
    /\ IdleBatch
    /\ IdleReport
    /\ IdlePipeline
    /\ IdlePrimary
    /\ IdleFrame
    /\ IdleQuality

\* BaseScraper._respect_rate_limit, called at the start of _make_request
RespectRateLimit ==
    /\ request_pc = "rate_limit"
    /\ LET time_since_last == clock - last_request_time
           sleep_time      == IF time_since_last < delay THEN delay - time_since_last ELSE 0
       IN  /\ clock' = clock + sleep_time
           /\ last_request_time' = clock + sleep_time
    /\ rate_limit_calls' = rate_limit_calls + 1
    /\ request_pc' = "get"
    /\ UNCHANGED <<get_outcomes, delay, attempt, get_attempts, sleeps, request_result,
                   textVars, ratingVars, cleanVars, dedupVars, simVars, classVars, reviewVars,
                   batchVars, reportVars, pipeVars, primaryVars, frameVars, qualityVars>>

\* one iteration of `for attempt in range(max_retries)`: session.get and
\* raise_for_status, the return of the response or the except clause.  The
\* last iteration returns, so the loop never runs out of values.
GetAttempt ==
    /\ request_pc = "get"
    /\ attempt < max_retries
    /\ get_attempts' = get_attempts + 1
    /\ IF get_outcomes[get_attempts + 1] = "ok"
       THEN /\ request_result' = << [response |-> get_attempts + 1] >>
            /\ request_pc' = "returned"
       ELSE IF after_failed_attempt(attempt) = "backoff"
       THEN /\ request_pc' = "backoff"
            /\ UNCHANGED request_result
       ELSE /\ request_result' = << PyNone >>
            /\ request_pc' = "returned"
    /\ UNCHANGED <<get_outcomes, clock, last_request_time, delay, rate_limit_calls, attempt, sleeps,
                   textVars, ratingVars, cleanVars, dedupVars, simVars, classVars, reviewVars,
                   batchVars, reportVars, pipeVars, primaryVars, frameVars, qualityVars>>

\* time.sleep(2 ** attempt) and the next value of the loop variable
Backoff ==
    /\ request_pc = "backoff"
    /\ sleeps' = Append(sleeps, 2 ^ attempt)
    /\ clock' = clock + 2 ^ attempt
    /\ attempt' = attempt + 1
    /\ request_pc' = "get"
    /\ UNCHANGED <<get_outcomes, last_request_time, delay, rate_limit_calls, get_attempts,
                   request_result,
                   textVars, ratingVars, cleanVars, dedupVars, simVars, classVars, reviewVars,
                   batchVars, reportVars, pipeVars, primaryVars, frameVars, qualityVars>>

NextRequest ==
    \/ RespectRateLimit
    \/ GetAttempt
    \/ Backoff

SpecRequest == InitRequest /\ [][NextRequest]_vars

\* every statement of the function that can run does run
FairSpecRequest == SpecRequest /\ WF_vars(NextRequest)

ItemsOf(heap, list) == [i \in DOMAIN list |-> heap[list[i]]]

\* a variant of dict_copy that returns the dictionary itself
dict_copy_same_object(heap, obj) == [heap |-> heap, obj |-> obj]

\* review.copy(): a new dictionary with the items of the old one
dict_copy(heap, obj) == [heap |-> Append(heap, heap[obj]), obj |-> Len(heap) + 1]

\* the assignments of clean_review to the keys of its copy: title and
\* content before the validation, the other keys after it.  `cleaned` is
\* <<>> when the function returns None, and obj |-> 0 stands for None.
assign_cleaned(copy, review, cleaned) ==
    IF cleaned = <<>>
    THEN [heap |-> [copy.heap EXCEPT ![copy.obj] =
                       [title |-> clean_text(review.title),
                        content |-> clean_text(review.content)] @@ @],
          obj |-> 0]
    ELSE [heap |-> [copy.heap EXCEPT ![copy.obj] = cleaned[1]], obj |-> copy.obj]

\* DataCleaner.clean_review on the dictionary obj: every assignment is to
\* the copy
clean_review_call(heap, obj) ==
    assign_cleaned(dict_copy(heap, obj), heap[obj], clean_review(heap[obj]))

\* cleaned_reviews.append(cleaned_review) when clean_review returned one
append_returned(earlier, one) ==
    [heap |-> one.heap,
     list |-> IF one.obj = 0 THEN earlier.list ELSE Append(earlier.list, one.obj)]

clean_next(earlier, obj) == append_returned(earlier, clean_review_call(earlier.heap, obj))

\* DataCleaner.clean_reviews: the returned dictionaries are appended to a
\* new list
RECURSIVE clean_reviews_call(_, _)
clean_reviews_call(heap, list) ==
    IF list = <<>> THEN [heap |-> heap, list |-> <<>>]
    ELSE clean_next(clean_reviews_call(heap, Take(list, Len(list) - 1)), list[Len(list)])

\* the references of the dictionaries deduplicate_reviews returned
references_of(list, values, returned) ==
    IF Raises(returned) THEN returned
    ELSE [list |-> [k \in DOMAIN returned.list |->
                       list[SetMin({ i \in DOMAIN list : values[i] = returned.list[k] })]]]

\* Deduplicator.deduplicate_reviews: the four passes build new lists of the
\* dictionaries they were given and assign to no key
deduplicate_reviews_call(heap, list) ==
    references_of(list, dedup_input(ItemsOf(heap, list)),
                  deduplicate_reviews(dedup_input(ItemsOf(heap, list))))

\* classified_review.update({...}) on the copy
update_copy(copy, classified) ==
    [heap |-> [copy.heap EXCEPT ![copy.obj] = classified @@ @], obj |-> copy.obj]

\* ReviewClassifier.classify_review on the dictionary obj: update() is
\* called on the copy
classify_review_call(heap, obj) ==
    update_copy(dict_copy(heap, obj), classify_review(heap[obj]))

classify_next(earlier, obj) == append_returned(earlier, classify_review_call(earlier.heap, obj))

\* ReviewClassifier.classify_reviews
RECURSIVE classify_reviews_call(_, _)
classify_reviews_call(heap, list) ==
    IF list = <<>> THEN [heap |-> heap, list |-> <<>>]
    ELSE classify_next(classify_reviews_call(heap, Take(list, Len(list) - 1)), list[Len(list)])

\* the dictionaries handed to the first stage: Review.to_dict() of the
\* reviews made from the scraped dictionaries, and two of them with a title
FrameRecords ==
    LET made == { to_dict(from_dict(d)) : d \in { x \in ScrapedDicts : ~Raises(from_dict(x)) } }
    IN  made \cup { [r EXCEPT !.title = <<" ","S","l","o","w"," "," ","u","i"," ">>] :
                      r \in { x \in made : x.review_id \in {"r1", "r2"} } }

InitFrame ==
    /\ frame_heap \in SeqsUpTo(FrameRecords, MaxScraped)
    /\ frame_lists = << [i \in DOMAIN frame_heap |-> i] >>
    /\ frame_snap = <<>>
    /\ frame_pc = "clean"
    /\ IdleText
    /\ IdleRating
    /\ IdleClean
    /\ IdleDedup
    /\ IdleSim
    /\ IdleClassify
    /\ IdleClassifyReview
    /\ IdleBatch
    /\ IdleReport
    /\ IdlePipeline
    /\ IdlePrimary
    /\ IdleQuality
    /\ IdleRequest

\* the call of a stage: the items of the list are recorded as they are at
\* the call
StageCalled(list) == frame_snap' = Append(frame_snap, ItemsOf(frame_heap, list))

\* a stage returned a list
StageReturned(returned) ==
    /\ frame_heap' = returned.heap
    /\ frame_lists' = Append(frame_lists, returned.list)

\* cleaned_dicts = cleaner.clean_reviews(review_dicts)
CleanReviewsCall ==
    /\ frame_pc = "clean"
    /\ StageCalled(frame_lists[Len(frame_lists)])
    /\ StageReturned(clean_reviews_call(frame_heap, frame_lists[Len(frame_lists)]))
    /\ frame_pc' = "deduplicate"
    /\ UNCHANGED <<textVars, ratingVars, cleanVars, dedupVars, simVars, classVars,
                   reviewVars, batchVars, reportVars, pipeVars, primaryVars, qualityVars, requestVars>>

\* deduplicate_reviews returned a list, or raised and ended the processing
\* of the batch
DeduplicateReturned(returned) ==
    IF Raises(returned)
    THEN /\ frame_pc' = "done"
         /\ UNCHANGED frame_lists
    ELSE /\ frame_pc' = "classify"
         /\ frame_lists' = Append(frame_lists, returned.list)

\* deduplicated_dicts = deduplicator.deduplicate_reviews(cleaned_dicts)
DeduplicateReviewsCall ==
    /\ frame_pc = "deduplicate"
    /\ StageCalled(frame_lists[Len(frame_lists)])
    /\ DeduplicateReturned(deduplicate_reviews_call(frame_heap, frame_lists[Len(frame_lists)]))
    /\ UNCHANGED <<frame_heap, textVars, ratingVars, cleanVars, dedupVars, simVars, classVars,
                   reviewVars, batchVars, reportVars, pipeVars, primaryVars, qualityVars, requestVars>>

\* classified_dicts = classifier.classify_reviews(deduplicated_dicts)
ClassifyReviewsCall ==
    /\ frame_pc = "classify"
    /\ StageCalled(frame_lists[Len(frame_lists)])
    /\ StageReturned(classify_reviews_call(frame_heap, frame_lists[Len(frame_lists)]))
    /\ frame_pc' = "done"
    /\ UNCHANGED <<textVars, ratingVars, cleanVars, dedupVars, simVars, classVars,
                   reviewVars, batchVars, reportVars, pipeVars, primaryVars, qualityVars, requestVars>>

NextFrame ==
    \/ CleanReviewsCall
    \/ DeduplicateReviewsCall
    \/ ClassifyReviewsCall

SpecFrame == InitFrame /\ [][NextFrame]_vars

\* C27: after clean_reviews, deduplicate_reviews or classify_reviews the
\* list handed to the stage has the same length and order, and each of its
\* records has the same fields and values as at the call.
C27_StagesKeepInput ==
    \A k \in DOMAIN frame_snap : ItemsOf(frame_heap, frame_lists[k]) = frame_snap[k]

\* all three stages were called, and the cleaned copy of a record differs
\* from the record handed to clean_reviews
C27_CleanedCopyDiffers ==
    /\ frame_pc = "done"
    /\ Len(frame_snap) = 3
    /\ Len(frame_lists) = 4
    /\ frame_lists[4] # <<>>
    /\ \E i \in DOMAIN frame_lists[1], j \in DOMAIN frame_lists[2] :
          /\ frame_heap[frame_lists[2][j]].review_id = frame_snap[1][i].review_id
          /\ frame_heap[frame_lists[2][j]].title # frame_snap[1][i].title

====
